---- MODULE Spec2Model ----
(***************************************************************************)
(* Verification model of the session / stimulus frame-alignment and        *)
(* segment-query engine (analysis/session.py, sess_util/sess_load_util.py) *)
(* and of the quintile / ROI-group layer (analysis/quint_analys.py,        *)
(* analysis/signif_grps.py).                                               *)
(*                                                                         *)
(* Arrays are sequences; the source's 0-based indices are kept and mapped  *)
(* to the 1-based sequences by At/SetAt.  Numbers are integers: running    *)
(* speeds and frame numbers are drawn from small integer ranges, and       *)
(* values that are halves in the source (np.mean of two samples) are kept  *)
(* doubled.                                                                *)
(***************************************************************************)
EXTENDS Integers, Sequences, FiniteSets, TLC

VARIABLES
    \* ---- running speed (sess_load_util.nan_large_run_differences,
    \*      Session._load_run_speed)
    run_raw,        \* the running velocities as read from the stimulus dict
    diff_thr,       \* the difference threshold passed to the repair
    run,            \* array returned by the last nan_large_run_differences
    run_prev,       \* array that the last pass was applied to
    n_pass,         \* number of nan_large_run_differences passes made
    run_raised,     \* the last pass raised (IndexError) instead of returning
    sess_run,       \* Session.run after _load_run_speed
    sess_run_interp2, \* 2 * Session.run_interp after _load_run_speed
    sess_run_pc,    \* "new" | "loaded" | "raised"
    \* ---- frame alignment (Session._load_stim_df, Session._get_twop2stimfr)
    stim2twopfr,    \* 2p frame number of each stimulus frame
    tot_twop_fr,    \* len(self.twop2pupfr): number of 2p frames
    twop2stimfr,    \* stimulus frame number of each 2p frame (NaN: none)
    align_pc,       \* "new" | "aligned"
    align_log,      \* warnings printed by _get_twop2stimfr
    \* ---- blocks of one stimulus (Stim.__init__, Stim._set_blocks)
    runtype,        \* "pilot" | "prod"
    stimtype,       \* "gabors" | "bricks"
    disp_seq,       \* display sequences: <<start, end>> in seconds
    exp_block_len_s, \* expected length of a block in seconds
    blank_per,      \* a blank segment occurs every blank_per segments
    seg_ps_wibl,    \* segments per second, blanks included
    block_ran_seg,  \* display sequence x block x <<start, end>> (segments)
    act_n_blocks,   \* number of blocks that started
    block_log,      \* warnings printed by _set_blocks
    block_pc,       \* "new" | "set"
    \* ---- segment table and queries (Session.stim_df, Stim.get_*,
    \*      quint_analys.quint_segs, sess_load_util.modify_bri_segs)
    stim_df,        \* the rows of the stimulus alignment dataframe
    call,           \* the last query or load step made, with its arguments
    ret,            \* what it returned ([raised |-> TRUE] when it raised)
    \* ---- ROI groups (signif_grps.sep_grps)
    nrois,          \* total number of ROIs
    tails,          \* "up" | "lo" | "2"
    sign_rois,      \* significant ROIs: quintile (x tail, <<lo, up>>, if "2")
    grps,           \* the set of groups asked for ("none" before the call)
    add_reg,        \* whether reg_reg is added to the set
    roi_grps,       \* the ROIs of each group returned
    grp_names       \* the names of the groups returned

runVars == <<run_raw, diff_thr, run, run_prev, n_pass, run_raised,
             sess_run, sess_run_interp2, sess_run_pc>>

alignVars == <<stim2twopfr, tot_twop_fr, twop2stimfr, align_pc, align_log>>

blockVars == <<runtype, stimtype, disp_seq, exp_block_len_s, blank_per,
               seg_ps_wibl, block_ran_seg, act_n_blocks, block_log, block_pc>>

stimVars == <<stim_df, call, ret>>

grpVars == <<nrois, tails, sign_rois, grps, add_reg, roi_grps, grp_names>>

vars == <<runVars, alignVars, blockVars, stimVars, grpVars>>

\* what the actions of one component leave alone
notRun   == <<alignVars, blockVars, stimVars, grpVars>>
notAlign == <<runVars, blockVars, stimVars, grpVars>>
notBlock == <<runVars, alignVars, stimVars, grpVars>>
notStim  == <<runVars, alignVars, grpVars>>
notGrp   == <<runVars, alignVars, blockVars, stimVars>>

----------------------------------------------------------------------------
\* Bounds of the model
MaxRunLen == 5      \* longest running-speed array
MaxSpeed  == 2      \* largest running speed drawn
MaxThr    == 2      \* largest difference threshold drawn
MaxPasses == 2      \* passes of the repair over its own output
MaxStimFr == 4      \* longest stimulus-frame alignment array
MaxStep   == 3      \* largest 2p-frame step between two stimulus frames
MaxBlank  == 1      \* 2p frames recorded after the last aligned one
MaxDispSeqs == 3    \* most display sequences of one stimulus
MaxDispLen == 5     \* longest display sequence in seconds
MaxSegs   == 4      \* most segments of the queried stimulus in stim_df
MaxNumFr  == 2      \* most 2p frames of the shorter segments
MaxQuints == 3      \* largest n_quints passed to quint_segs
NSegPerSet == 2     \* gabor frames per set (gabfr runs over 0..NSegPerSet-1)
MaxBriSegs == 3     \* most segments of one part of the production bricks
MaxRois == 3        \* most ROIs of a session
MaxSigRois == 5     \* most ROIs of a session whose ROIs are tested
MaxFrames == 4      \* most frames of a recording read by frame index

----------------------------------------------------------------------------
\* Generic helpers
NaN == 9999

Abs(x) == IF x < 0 THEN -x ELSE x

At(s, i) == s[i + 1]

SetAt(s, i, v) == [s EXCEPT ![i + 1] = v]

SetMax(S) == CHOOSE x \in S : \A y \in S : y <= x

SetMin(S) == CHOOSE x \in S : \A y \in S : x <= y

\* ascending sequence of the elements of a finite set of integers
RECURSIVE SortedSeq(_)
SortedSeq(S) ==
    IF S = {} THEN <<>> ELSE <<SetMin(S)>> \o SortedSeq(S \ {SetMin(S)})

SeqsUpTo(S, n) == UNION {[1..k -> S] : k \in 0..n}

----------------------------------------------------------------------------
\* Running-speed outlier repair

\* np.absolute(a - b) > thr; any comparison with NaN is False
AbsDiffGt(a, b, thr) == a # NaN /\ b # NaN /\ Abs(a - b) > thr

\* np.where(~np.isnan(run))[0]
NotNansIdx(r) == SortedSeq({i \in 0..(Len(r) - 1) : At(r, i) # NaN})

\* run[not_nans_idx]
DropNans(r) == [k \in 1..Len(NotNansIdx(r)) |-> At(r, NotNansIdx(r)[k])]

\* np.where((run_diff < -diff_thr) | (run_diff > diff_thr))[0]
OutIdx(r, thr) ==
    SortedSeq({i \in 0..(Len(r) - 2) : AbsDiffGt(At(r, i + 1), At(r, i), thr)})

\* a variant that drops one sample per outlier index instead of the whole run
ExtendRunOnce(r, idx, comp_val, thr) ==
    IF idx + 1 >= Len(r) THEN [run |-> r, idx |-> idx, err |-> TRUE]
    ELSE IF AbsDiffGt(At(r, idx + 1), comp_val, thr)
         THEN [run |-> SetAt(r, idx + 1, NaN), idx |-> idx + 1, err |-> FALSE]
         ELSE [run |-> r, idx |-> idx, err |-> FALSE]

\* while np.absolute(run[idx + 1] - comp_val) > diff_thr: run[idx + 1] = nan
\* reading run[idx + 1] past the end of the array raises IndexError
RECURSIVE ExtendRun(_, _, _, _)
ExtendRun(r, idx, comp_val, thr) ==
    IF idx + 1 >= Len(r) THEN [run |-> r, idx |-> idx, err |-> TRUE]
    ELSE IF AbsDiffGt(At(r, idx + 1), comp_val, thr)
         THEN ExtendRun(SetAt(r, idx + 1, NaN), idx + 1, comp_val, thr)
         ELSE [run |-> r, idx |-> idx, err |-> FALSE]

\* comparison value of an outlier index: 0 at index 0, else run[idx]
CompVal(r, idx) == IF idx = 0 THEN 0 ELSE At(r, idx)

\* if idx == 0 and np.absolute(run[0]) > diff_thr: run[0] = np.nan
NanFirst(r, idx, thr) ==
    IF idx = 0 /\ AbsDiffGt(At(r, 0), 0, thr) THEN SetAt(r, 0, NaN) ELSE r

\* for idx in out_idx: if idx > at_idx: ...; at_idx = idx
RECURSIVE ScanOutliers(_, _, _, _, _)
ScanOutliers(r, out, k, at_idx, thr) ==
    IF k > Len(out) THEN [run |-> r, err |-> FALSE]
    ELSE IF out[k] > at_idx
         THEN LET idx == out[k]
                  e   == ExtendRun(NanFirst(r, idx, thr), idx,
                                   CompVal(r, idx), thr)
              IN  IF e.err THEN [run |-> e.run, err |-> TRUE]
                  ELSE ScanOutliers(e.run, out, k + 1, e.idx, thr)
         ELSE ScanOutliers(r, out, k + 1, at_idx, thr)

\* run = np.empty(original_length) * np.nan; run[not_nans_idx] = prev_run
ReinsertNans(orig, kept) ==
    [i \in 1..Len(orig) |->
        IF orig[i] = NaN THEN NaN
        ELSE kept[Cardinality({j \in 1..i : orig[j] # NaN})]]

\* nan_large_run_differences(run, diff_thr): the array returned, or err
NanLargeRunDifferences(r, thr) ==
    LET kept == DropNans(r)
        s    == ScanOutliers(kept, OutIdx(kept, thr), 1, -1, thr)
    IN  IF s.err THEN [run |-> r, err |-> TRUE]
        ELSE [run |-> ReinsertNans(r, s.run), err |-> FALSE]

----------------------------------------------------------------------------
\* Session._load_run_speed: the same scan, in place on self.run, which also
\* fills self.run_interp (kept doubled)

\* self.run_interp[orig+1:idx+1] = np.mean([comp_val, self.run[idx + 1]])
FillInterp(interp2, orig, idx, comp_val, after) ==
    [i \in 1..Len(interp2) |->
        IF orig + 1 <= i - 1 /\ i - 1 < idx + 1
        THEN comp_val + after ELSE interp2[i]]

\* for idx in out_idx: ...; reading self.run[idx + 1] past the end of the
\* array raises IndexError
RECURSIVE LoadRunScan(_, _, _, _, _, _)
LoadRunScan(r, interp2, out, k, at_idx, thr) ==
    IF k > Len(out) THEN [run |-> r, interp2 |-> interp2, err |-> FALSE]
    ELSE IF out[k] > at_idx
         THEN LET idx  == out[k]
                  orig == IF idx = 0 /\ AbsDiffGt(At(r, 0), 0, thr)
                          THEN -1 ELSE idx
                  e    == ExtendRun(NanFirst(r, idx, thr), idx,
                                    CompVal(r, idx), thr)
              IN  IF e.err \/ e.idx + 1 >= Len(e.run)
                  THEN [run |-> e.run, interp2 |-> interp2, err |-> TRUE]
                  ELSE LoadRunScan(e.run,
                                   FillInterp(interp2, orig, e.idx,
                                              CompVal(r, idx),
                                              At(e.run, e.idx + 1)),
                                   out, k + 1, e.idx, thr)
         ELSE LoadRunScan(r, interp2, out, k + 1, at_idx, thr)

LoadRunSpeed(r, thr) ==
    LoadRunScan(r, [i \in 1..Len(r) |-> 2 * r[i]], OutIdx(r, thr), 1, -1, thr)

----------------------------------------------------------------------------
\* State machine of the running-speed repair

RunIdle ==
    /\ run_raw = <<>>
    /\ diff_thr = 1
    /\ run = <<>>
    /\ run_prev = <<>>
    /\ n_pass = 0
    /\ run_raised = FALSE
    /\ sess_run = <<>>
    /\ sess_run_interp2 = <<>>
    /\ sess_run_pc = "new"

RunInit ==
    /\ run_raw \in SeqsUpTo((-1)..MaxSpeed, MaxRunLen)
    /\ diff_thr \in 1..MaxThr
    /\ run = run_raw
    /\ run_prev = run_raw
    /\ n_pass = 0
    /\ run_raised = FALSE
    /\ sess_run = run_raw
    /\ sess_run_interp2 = [i \in 1..Len(run_raw) |-> 2 * run_raw[i]]
    /\ sess_run_pc = "new"

\* one call of nan_large_run_differences on the array currently held
NanLargeRunDifferencesCall ==
    /\ n_pass < MaxPasses
    /\ ~run_raised
    /\ LET res == NanLargeRunDifferences(run, diff_thr)
       IN  /\ run_prev' = run
           /\ run' = res.run
           /\ run_raised' = res.err
    /\ n_pass' = n_pass + 1
    /\ UNCHANGED <<run_raw, diff_thr, sess_run, sess_run_interp2, sess_run_pc>>
    /\ UNCHANGED notRun

\* Session._load_run_speed on the raw array
LoadRunSpeedCall ==
    /\ sess_run_pc = "new"
    /\ LET res == LoadRunSpeed(run_raw, diff_thr)
       IN  /\ sess_run' = res.run
           /\ sess_run_interp2' = res.interp2
           /\ sess_run_pc' = IF res.err THEN "raised" ELSE "loaded"
    /\ UNCHANGED <<run_raw, diff_thr, run, run_prev, n_pass, run_raised>>
    /\ UNCHANGED notRun

RunNext == NanLargeRunDifferencesCall \/ LoadRunSpeedCall

----------------------------------------------------------------------------
\* Properties of the running-speed repair

\* C4: a second pass of nan_large_run_differences over the array the first
\* pass returned does not raise and returns that array unchanged (same NaN
\* positions, same values).
C4_RepairIdempotent ==
    n_pass >= 2 => (~run_raised /\ run = run_prev)

C4_Witness ==
    /\ n_pass >= 2
    /\ ~run_raised
    /\ run # run_raw
    /\ \E i \in 1..Len(run) : run[i] = NaN
    /\ \E i \in 1..Len(run) : run[i] # NaN

\* The 'exclude' output as C5 describes it: sample i >= 1 is NaN iff it
\* deviates by more than thr from the last good sample before it (0 when no
\* sample before it is good); the first sample is NaN iff it is flagged, that
\* is, it is followed by a jump and is itself more than thr away from 0.
RECURSIVE C5_Exclude(_, _, _, _, _)
C5_Exclude(r, thr, i, ref, acc) ==
    IF i >= Len(r) THEN acc
    ELSE LET bad == IF i = 0
                    THEN /\ Len(r) > 1
                         /\ Abs(At(r, 1) - At(r, 0)) > thr
                         /\ Abs(At(r, 0)) > thr
                    ELSE Abs(At(r, i) - ref) > thr
         IN  IF bad THEN C5_Exclude(r, thr, i + 1, ref, Append(acc, NaN))
             ELSE C5_Exclude(r, thr, i + 1, At(r, i), Append(acc, At(r, i)))

\* C5: whenever the repair of a finite array returns, a sample is NaN iff it
\* belongs to a run of samples deviating by more than diff_thr from the last
\* good sample before the run (0 when the run starts at the first sample),
\* and every other sample keeps its value.
C5_ExcludeAsClaimed ==
    (n_pass = 1 /\ ~run_raised) => run = C5_Exclude(run_raw, diff_thr, 0, 0, <<>>)

\* index of the last good sample before position i of r (-1 when none)
LastGoodBefore(r, i) ==
    IF \E j \in 0..(i - 1) : At(r, j) # NaN
    THEN SetMax({j \in 0..(i - 1) : At(r, j) # NaN}) ELSE -1

\* index of the first good sample after position i of r
FirstGoodAfter(r, i) ==
    SetMin({j \in (i + 1)..(Len(r) - 1) : At(r, j) # NaN})

\* C6: in Session.run_interp every sample of an outlier run holds the linear
\* interpolation, at its own position, between the last good value before the
\* run and the first good value after it.  Stated for the runs that follow a
\* good sample other than the first one, where the scan compares with that
\* sample (run_interp is kept doubled, and the equation is cleared of
\* fractions).
C6_InterpLinear ==
    sess_run_pc = "loaded" =>
        \A i \in 0..(Len(sess_run) - 1) :
            (At(sess_run, i) = NaN /\ LastGoodBefore(sess_run, i) >= 1) =>
                LET p == LastGoodBefore(sess_run, i)
                    q == FirstGoodAfter(sess_run, i)
                    a == At(run_raw, p)
                    b == At(run_raw, q)
                IN  At(sess_run_interp2, i) * (q - p)
                        = 2 * a * (q - p) + 2 * (b - a) * (i - p)

\* C28: the outlier scan (the loop over the out-of-threshold indices with the
\* inner while loop that extends an outlier run) ends without raising for
\* every finite array and returns an array of the input length, also when
\* the array ends inside an outlier run or holds only out-of-threshold
\* samples; so for nan_large_run_differences and for _load_run_speed.
C28_ScanReturns ==
    /\ n_pass = 1 => (~run_raised /\ Len(run) = Len(run_raw))
    /\ sess_run_pc # "raised"
    /\ sess_run_pc = "loaded" => Len(sess_run) = Len(run_raw)

----------------------------------------------------------------------------
\* Frame alignment: Session._get_twop2stimfr

\* np.append(1, np.diff(self.stim2twopfr)), as a 0-based array
Stim2TwopDiff(s2t) ==
    [i \in 1..Len(s2t) |-> IF i = 1 THEN 1 ELSE s2t[i] - s2t[i - 1]]

\* np.where(stim2twopfr_diff)[0]
StimIdx(s2t) ==
    SortedSeq({i \in 0..(Len(s2t) - 1) : At(Stim2TwopDiff(s2t), i) # 0})

\* np.where(stim2twopfr_diff > 1)[0]
Dropped(s2t) ==
    SortedSeq({i \in 0..(Len(s2t) - 1) : At(Stim2TwopDiff(s2t), i) > 1})

\* the drops the loop visits: dropped[-1:]
DroppedVisited(dropped) ==
    IF dropped = <<>> THEN <<>> ELSE <<dropped[Len(dropped)]>>

\* a variant that inserts the repeated index after the drop, not before it
InsertRepeatsAfter(stim_idx, drop, n) ==
    LET loc == CHOOSE k \in 1..Len(stim_idx) : stim_idx[k] = drop
    IN  SubSeq(stim_idx, 1, loc)
            \o [k \in 1..n |-> stim_idx[loc - 1]]
            \o SubSeq(stim_idx, loc + 1, Len(stim_idx))

\* loc = np.where(stim_idx == drop)[0][0]
\* stim_idx = np.insert(stim_idx, loc, [stim_idx[loc-1]] * n)
InsertRepeats(stim_idx, drop, n) ==
    LET loc == CHOOSE k \in 1..Len(stim_idx) : stim_idx[k] = drop
    IN  SubSeq(stim_idx, 1, loc - 1)
            \o [k \in 1..n |-> stim_idx[loc - 1]]
            \o SubSeq(stim_idx, loc, Len(stim_idx))

\* for drop in dropped[-1:]: repeat stim idx when frame is dropped
RECURSIVE RepeatDropped(_, _, _, _)
RepeatDropped(stim_idx, visited, k, s2t) ==
    IF k > Len(visited) THEN stim_idx
    ELSE RepeatDropped(
            InsertRepeats(stim_idx, visited[k],
                          At(Stim2TwopDiff(s2t), visited[k]) - 1),
            visited, k + 1, s2t)

\* length of the slice [start:end] of an array of n elements
SliceLen(start, end, n) ==
    LET lo == IF start < n THEN start ELSE n
        hi == IF end < n THEN end ELSE n
    IN  IF hi > lo THEN hi - lo ELSE 0

\* self.twop2stimfr[start:end] = stim_idx: numpy accepts an array of the
\* slice's length or of one element, and raises ValueError otherwise
SliceAssignOk(start, end, n, vals) ==
    Len(vals) = SliceLen(start, end, n) \/ Len(vals) = 1

SliceAssign(arr, start, end, vals) ==
    [i \in 1..Len(arr) |->
        IF start <= i - 1 /\ i - 1 < end
        THEN (IF Len(vals) = 1 THEN vals[1] ELSE vals[i - start])
        ELSE arr[i]]

GetTwop2StimFr(s2t, n) ==
    LET stim_idx == RepeatDropped(StimIdx(s2t), DroppedVisited(Dropped(s2t)),
                                  1, s2t)
        start    == s2t[1]
        end      == s2t[Len(s2t)] + 1
        blank    == [i \in 1..n |-> NaN]
    IN  IF SliceAssignOk(start, end, n, stim_idx)
        THEN [twop2stimfr |-> SliceAssign(blank, start, end, stim_idx),
              log |-> IF Dropped(s2t) # <<>> THEN {"dropped"} ELSE {}]
        ELSE [twop2stimfr |-> blank,
              log |-> (IF Dropped(s2t) # <<>> THEN {"dropped"} ELSE {})
                          \cup {"not_working"}]

\* the alignment arrays a session is loaded with (align['stim_align'])
RECURSIVE CumulFrom(_, _)
CumulFrom(first, steps) ==
    IF steps = <<>> THEN <<first>>
    ELSE <<first>> \o CumulFrom(first + steps[1], Tail(steps))

StimAlignments ==
    {CumulFrom(first, steps) :
        first \in 0..1, steps \in SeqsUpTo(0..MaxStep, MaxStimFr - 1)}

AlignIdle ==
    /\ stim2twopfr = <<0>>
    /\ tot_twop_fr = 1
    /\ twop2stimfr = <<>>
    /\ align_pc = "new"
    /\ align_log = {}

AlignInit ==
    /\ stim2twopfr \in StimAlignments
    /\ \E extra \in 0..MaxBlank :
          tot_twop_fr = stim2twopfr[Len(stim2twopfr)] + 1 + extra
    /\ twop2stimfr = <<>>
    /\ align_pc = "new"
    /\ align_log = {}

\* Session._load_sync_h5s calling self._get_twop2stimfr()
GetTwop2StimFrCall ==
    /\ align_pc = "new"
    /\ LET res == GetTwop2StimFr(stim2twopfr, tot_twop_fr)
       IN  /\ twop2stimfr' = res.twop2stimfr
           /\ align_log' = res.log
    /\ align_pc' = "aligned"
    /\ UNCHANGED <<stim2twopfr, tot_twop_fr>>
    /\ UNCHANGED notAlign

AlignNext == GetTwop2StimFrCall

\* C7: after _get_twop2stimfr every 2p frame f between the first and the last
\* aligned 2p frame holds a stimulus-frame index, namely the first stimulus
\* frame of the latest 2p frame <= f that has one (for a skipped 2p frame,
\* the preceding index repeated), however many dropped sequences there are.
C7_AllDropsBackfilled ==
    align_pc = "aligned" =>
        \A f \in stim2twopfr[1]..stim2twopfr[Len(stim2twopfr)] :
            LET g == SetMax({stim2twopfr[j] : j \in
                        {j \in 1..Len(stim2twopfr) : stim2twopfr[j] <= f}})
            IN  At(twop2stimfr, f)
                    = SetMin({j - 1 : j \in
                        {j \in 1..Len(stim2twopfr) : stim2twopfr[j] = g}})

----------------------------------------------------------------------------
\* Blocks of a stimulus: Stim._set_blocks

\* int(np.ceil(n / d)) for d > 0
CeilDiv(n, d) == -((-n) \div d)

\* int(np.around(n / d)) for d > 0: halves go to the even neighbour
RoundDiv(n, d) ==
    LET q == n \div d
        r == n % d
    IN  IF 2 * r < d THEN q
        ELSE IF 2 * r > d THEN q + 1
        ELSE IF q % 2 = 0 THEN q ELSE q + 1

\* self.exp_n_blocks as set by Stim.__init__
ExpNBlocks(rt, st) ==
    IF st = "gabors" THEN (IF rt = "pilot" THEN 2 ELSE 1)
    ELSE (IF rt = "pilot" THEN 4 ELSE 2)

\* block_len as the fraction BlockLenNum / BlockLenDen: exp_block_len_s for
\* gabors, exp_block_len_s * seg_ps_wibl / seg_ps_nobl for bricks, with
\* seg_ps_nobl = seg_ps_wibl * blank_per / (1 + blank_per) unless blank_per = 0
BlockLenNum(st, exp_len, bp) ==
    IF st = "bricks" /\ bp # 0 THEN exp_len * (1 + bp) ELSE exp_len

BlockLenDen(st, bp) == IF st = "bricks" /\ bp # 0 THEN bp ELSE 1

\* int(np.around(block_len * self.seg_ps_nobl))
BlockSegs(st, exp_len, bp, w) ==
    IF bp = 0 THEN RoundDiv(BlockLenNum(st, exp_len, bp) * w,
                            BlockLenDen(st, bp))
    ELSE RoundDiv(BlockLenNum(st, exp_len, bp) * w * bp,
                  BlockLenDen(st, bp) * (1 + bp))

\* np.diff(self.disp_seq)[i]
DispLen(ds, i) == ds[i][2] - ds[i][1]

RECURSIVE SumDispLen(_, _)
SumDispLen(ds, i) ==
    IF i > Len(ds) THEN 0 ELSE DispLen(ds, i) + SumDispLen(ds, i + 1)

\* self.act_n_blocks = int(np.ceil(float(tot_disp) / block_len))
ActNBlocks(st, ds, exp_len, bp) ==
    CeilDiv(SumDispLen(ds, 1) * BlockLenDen(st, bp),
            BlockLenNum(st, exp_len, bp))

\* the n_bl - 1 full blocks of a display sequence
FullBlocks(start, n, segs) ==
    [k \in 1..(IF n > 0 THEN n ELSE 0) |->
        <<start + (k - 1) * segs, start + k * segs>>]

Max0(x) == IF x > 0 THEN x ELSE 0

\* end = start + int(np.around(block_len * self.seg_ps_nobl))
\*           - np.max([0, rem_seg - 1]); temp.append([start, end])
LastBlock(start, segs, rem_seg) ==
    <<start, start + segs - Max0(rem_seg - 1)>>

\* the warnings of one display sequence
BlockWarnings(i, n_seq, rem_seg) ==
    IF rem_seg = 1
    THEN {<<i, IF i = n_seq THEN "last_blank_omitted" ELSE "last_blank_pushed">>}
    ELSE IF rem_seg > 1
         THEN {<<i, IF i = n_seq THEN "segs_omitted" ELSE "segs_pushed">>}
         ELSE {}

\* for i in range(len(self.disp_seq)): ...  (rem_num is rem_sec_all, in
\* units of 1 / BlockLenDen seconds)
RECURSIVE SetBlocksLoop(_, _, _, _, _, _, _, _, _)
SetBlocksLoop(st, ds, exp_len, bp, w, i, rem_num, start, acc) ==
    IF i > Len(ds) THEN acc
    ELSE LET bl_num  == BlockLenNum(st, exp_len, bp)
             bl_den  == BlockLenDen(st, bp)
             length  == DispLen(ds, i) * bl_den - rem_num
             n_bl    == CeilDiv(length, bl_num)
             rem     == n_bl * bl_num - length
             rem_seg == RoundDiv(rem * w, bl_den)
             segs    == BlockSegs(st, exp_len, bp, w)
             full    == FullBlocks(start, n_bl - 1, segs)
             last    == LastBlock(start + Len(full) * segs, segs, rem_seg)
         IN  SetBlocksLoop(st, ds, exp_len, bp, w, i + 1, rem_num + rem,
                           last[2] + Max0(rem_seg - 1),
                           [ran |-> Append(acc.ran, Append(full, last)),
                            log |-> acc.log
                                      \cup BlockWarnings(i, Len(ds), rem_seg)])

SetBlocks(rt, st, ds, exp_len, bp, w) ==
    LET act  == ActNBlocks(st, ds, exp_len, bp)
        loop == SetBlocksLoop(st, ds, exp_len, bp, w, 1, 0, 0,
                              [ran |-> <<>>, log |-> {}])
    IN  [act_n_blocks |-> act,
         block_ran_seg |-> loop.ran,
         log |-> loop.log \cup
                 (IF act # ExpNBlocks(rt, st)
                  THEN {<<0, "unexpected_n_blocks">>} ELSE {})]

\* display sequences: <<start, end>> pairs of the given lengths, one second
\* of another stimulus between two of them
RECURSIVE DispSeqOf(_, _)
DispSeqOf(lens, t) ==
    IF lens = <<>> THEN <<>>
    ELSE <<<<t, t + lens[1]>>>> \o DispSeqOf(Tail(lens), t + lens[1] + 1)

BlankPers == {0, 1, 4}

SegPs == {1, 2}

ExpBlockLens == {2, 3}

BlockIdle ==
    /\ runtype = "prod"
    /\ stimtype = "gabors"
    /\ disp_seq = <<>>
    /\ exp_block_len_s = 2
    /\ blank_per = 0
    /\ seg_ps_wibl = 1
    /\ block_ran_seg = <<>>
    /\ act_n_blocks = 0
    /\ block_log = {}
    /\ block_pc = "new"

BlockInit ==
    /\ runtype \in {"pilot", "prod"}
    /\ stimtype \in {"gabors", "bricks"}
    /\ \E lens \in SeqsUpTo(1..MaxDispLen, MaxDispSeqs) :
          lens # <<>> /\ disp_seq = DispSeqOf(lens, 0)
    /\ exp_block_len_s \in ExpBlockLens
    /\ blank_per \in BlankPers
    /\ seg_ps_wibl \in SegPs
    /\ block_ran_seg = <<>>
    /\ act_n_blocks = 0
    /\ block_log = {}
    /\ block_pc = "new"

\* Stim.__init__ calling self._set_blocks()
SetBlocksCall ==
    /\ block_pc = "new"
    /\ LET res == SetBlocks(runtype, stimtype, disp_seq, exp_block_len_s,
                            blank_per, seg_ps_wibl)
       IN  /\ block_ran_seg' = res.block_ran_seg
           /\ act_n_blocks' = res.act_n_blocks
           /\ block_log' = res.log
    /\ block_pc' = "set"
    /\ UNCHANGED <<runtype, stimtype, disp_seq, exp_block_len_s, blank_per,
                   seg_ps_wibl>>
    /\ UNCHANGED notBlock

BlockNext == SetBlocksCall

\* all block ranges in order
RECURSIVE FlatRanges(_)
FlatRanges(ran) ==
    IF ran = <<>> THEN <<>> ELSE ran[1] \o FlatRanges(Tail(ran))

\* C9: the segment ranges of block_ran_seg are non-empty, ascending and
\* non-overlapping; blocks of one display sequence are contiguous; a gap
\* between two ranges lies at a display-sequence boundary and is logged.
C9_BlockRanges ==
    block_pc = "set" =>
        LET flat == FlatRanges(block_ran_seg)
        IN  /\ \A k \in 1..Len(flat) : flat[k][1] < flat[k][2]
            /\ \A k \in 1..(Len(flat) - 1) : flat[k][2] <= flat[k + 1][1]
            /\ \A i \in 1..Len(block_ran_seg) :
                  \A k \in 1..(Len(block_ran_seg[i]) - 1) :
                     block_ran_seg[i][k][2] = block_ran_seg[i][k + 1][1]
            /\ \A i \in 1..(Len(block_ran_seg) - 1) :
                  LET this == block_ran_seg[i]
                      next == block_ran_seg[i + 1]
                  IN  this[Len(this)][2] # next[1][1]
                         => <<i, "segs_pushed">> \in block_log


\* C23: when the number of blocks started (act_n_blocks) differs from the
\* expected number (exp_n_blocks), constructing the Stim object raises; no
\* Stim object with an unexpected block count is returned.
C23_MismatchRaises ==
    block_pc = "set" => act_n_blocks = ExpNBlocks(runtype, stimtype)

\* the blocks C29 gives display sequence i on: ceil(usable / block duration)
\* with usable = duration - remainder of the sequence before (prev_rem), in
\* units of 1 / BlockLenDen seconds
RECURSIVE C29_Blocks(_, _)
C29_Blocks(i, prev_rem) ==
    IF i > Len(disp_seq) THEN <<>>
    ELSE LET bl_num == BlockLenNum(stimtype, exp_block_len_s, blank_per)
             usable == DispLen(disp_seq, i)
                          * BlockLenDen(stimtype, blank_per) - prev_rem
             n_bl   == CeilDiv(usable, bl_num)
         IN  <<n_bl>> \o C29_Blocks(i + 1, n_bl * bl_num - usable)

\* C29: each display sequence contributes ceil(usable duration / block
\* duration) blocks, the usable duration being the sequence duration minus
\* only the remainder of the sequence just before it, so that the number of
\* block ranges created is act_n_blocks = ceil(total duration / block
\* duration), for any number of display sequences.
C29_BlockCount ==
    block_pc = "set" =>
        /\ \A i \in 1..Len(disp_seq) :
              Len(block_ran_seg[i]) = C29_Blocks(1, 0)[i]
        /\ Len(FlatRanges(block_ran_seg)) = act_n_blocks

----------------------------------------------------------------------------
\* The segment table (stim_df) and the criteria queries of Stim

\* criteria values: 'any', None, or the values of interest
AnyVal == [kind |-> "any"]

NoneVal == [kind |-> "none"]

Vals(S) == [kind |-> "vals", vals |-> S]

\* a frame-range criterion [min, max (excl)], or a list of another length
Range(lo, hi) == [kind |-> "range", lo |-> lo, hi |-> hi]

BadLen == [kind |-> "badlen"]

\* self.stimtype[0]
StimTypeCode(st) == IF st = "gabors" THEN "g" ELSE "b"

\* gen_util.get_df_vals(df, col, val, label): the values of column label in
\* the rows whose column col is val
GetDfVals(df, col, val, label) ==
    {df[k][label] : k \in {k \in 1..Len(df) : df[k][col] = val}}

\* gen_util.get_df_label_vals(df, label, vals): every value of the column
\* for 'any' or None, else the values passed
GetDfLabelVals(df, label, v) ==
    IF v.kind = "vals" THEN v.vals ELSE {df[k][label] : k \in 1..Len(df)}

\* a semantic parameter after "if pars[i] == 'any'": the stimulus' values of
\* the column, looked up under stimType == self.stimtype
SemanticVals(df, st, v, name) ==
    IF v.kind = "any" THEN GetDfVals(df, "stimType", st, name)
    ELSE IF v.kind = "vals" THEN v.vals
    ELSE {}

\* the frame-range criteria: the whole range of the column for 'any' or
\* None; each of the three branches tests len(start2pfr)
FrameRange(df, label, v, start2pfr) ==
    IF v.kind \in {"any", "none"}
    THEN [lo |-> SetMin({df[k][label] : k \in 1..Len(df)}),
          hi |-> SetMax({df[k][label] : k \in 1..Len(df)}) + 1,
          err |-> FALSE]
    ELSE IF start2pfr.kind = "range" /\ v.kind = "range"
         THEN [lo |-> v.lo, hi |-> v.hi, err |-> FALSE]
         ELSE [lo |-> 0, hi |-> 0, err |-> TRUE]

\* stimSeg with the -1s left in
StimSegValsKeepGray(df, v) == GetDfLabelVals(df, "stimSeg", v)

\* stimSeg = gen_util.get_df_label_vals(stim_df, 'stimSeg', stimSeg), then
\* gen_util.remove_if(stimSeg, -1)
StimSegVals(df, v) == GetDfLabelVals(df, "stimSeg", v) \ {-1}

\* Stim._format_stim_criteria
FormatStimCriteria(df, st, c) ==
    LET bri_size == IF st = "gabors" THEN NoneVal ELSE c.bri_size
        bri_dir  == IF st = "gabors" THEN NoneVal ELSE c.bri_dir
        gabfr    == IF st = "bricks" THEN NoneVal ELSE c.gabfr
        gabk     == IF st = "bricks" THEN NoneVal ELSE c.gabk
        gab_ori  == IF st = "bricks" THEN NoneVal ELSE c.gab_ori
        sp1      == SemanticVals(df, st, gab_ori, "stimPar1")
                       \cup SemanticVals(df, st, bri_size, "stimPar1")
        sp2      == SemanticVals(df, st, gabk, "stimPar2")
                       \cup SemanticVals(df, st, bri_dir, "stimPar2")
        stimPar1 == IF sp1 # {} THEN Vals(sp1) ELSE c.stimPar1
        stimPar2 == IF sp2 # {} THEN Vals(sp2) ELSE c.stimPar2
        s2p      == FrameRange(df, "start2pfr", c.start2pfr, c.start2pfr)
        e2p      == FrameRange(df, "end2pfr", c.end2pfr, c.start2pfr)
        n2p      == FrameRange(df, "num2pfr", c.num2pfr, c.start2pfr)
    IN  [stimPar1 |-> GetDfLabelVals(df, "stimPar1", stimPar1),
         stimPar2 |-> GetDfLabelVals(df, "stimPar2", stimPar2),
         surp     |-> GetDfLabelVals(df, "surp", c.surp),
         stimSeg  |-> StimSegVals(df, c.stimSeg),
         gabfr    |-> GetDfLabelVals(df, "gabfr", gabfr),
         start2pfr |-> s2p, end2pfr |-> e2p, num2pfr |-> n2p,
         err |-> s2p.err \/ e2p.err \/ n2p.err]

\* the row test shared by get_stim_df_by_criteria and get_segs_by_criteria
RowFits(row, st, f) ==
    /\ row.stimType = StimTypeCode(st)
    /\ row.stimPar1 \in f.stimPar1
    /\ row.stimPar2 \in f.stimPar2
    /\ row.surp \in f.surp
    /\ row.stimSeg \in f.stimSeg
    /\ row.gabfr \in f.gabfr
    /\ row.start2pfr >= f.start2pfr.lo /\ row.start2pfr < f.start2pfr.hi
    /\ row.end2pfr >= f.end2pfr.lo /\ row.end2pfr < f.end2pfr.hi
    /\ row.num2pfr >= f.num2pfr.lo /\ row.num2pfr < f.num2pfr.hi

\* a variant that compares with idxs[k-1] instead of idxs[k-1] + 1
RemConsecNoInc(idxs) ==
    SelectSeq([k \in 1..Len(idxs) |->
                  IF k = 1 \/ idxs[k] # idxs[k - 1] THEN idxs[k] ELSE -2],
              LAMBDA v : v # -2)

\* if remconsec: keep val when k == 0 or val != idxs[k-1] + 1
RemConsec(idxs) ==
    SelectSeq([k \in 1..Len(idxs) |->
                  IF k = 1 \/ idxs[k] # idxs[k - 1] + 1 THEN idxs[k] ELSE -2],
              LAMBDA v : v # -2)

\* the ids of one block [j[0], j[1]) that fit the criteria
BlockSegsByCriteria(df, st, f, j, remconsec) ==
    LET InBlock(row) ==
            RowFits(row, st, f) /\ row.stimSeg >= j[1] /\ row.stimSeg < j[2]
        rows == SelectSeq(df, InBlock)
        idxs == [k \in 1..Len(rows) |-> rows[k].stimSeg]
    IN  IF remconsec THEN RemConsec(idxs) ELSE idxs

RECURSIVE Flatten(_)
Flatten(ss) == IF ss = <<>> THEN <<>> ELSE ss[1] \o Flatten(Tail(ss))

\* Stim.get_segs_by_criteria(..., by='block'): the non-empty id lists of the
\* blocks, or ValueError when the criteria are malformed or nothing fits
GetSegsByCriteria(df, st, blocks, c, remconsec) ==
    LET f      == FormatStimCriteria(df, st, c)
        flat   == Flatten(blocks)
        perblk == [b \in 1..Len(flat) |->
                      BlockSegsByCriteria(df, st, f, flat[b], remconsec)]
        segs   == SelectSeq(perblk, LAMBDA l : l # <<>>)
    IN  IF f.err \/ segs = <<>> THEN [raised |-> TRUE, segs |-> <<>>]
        ELSE [raised |-> FALSE, segs |-> segs]

\* Stim.get_stim_df_by_criteria: the rows that fit, or the ValueError of
\* _format_stim_criteria
GetStimDfByCriteria(df, st, c) ==
    LET f == FormatStimCriteria(df, st, c)
    IN  IF f.err THEN [raised |-> TRUE, rows |-> <<>>]
        ELSE [raised |-> FALSE,
              rows |-> SelectSeq(df, LAMBDA row : RowFits(row, st, f))]

\* stim.stim_seg_list: the segment shown at each stimulus frame, one frame
\* per segment of the stimulus
StimSegList(df, st) ==
    SortedSeq(GetDfVals(df, "stimType", StimTypeCode(st), "stimSeg"))

\* Stim.get_stim_fr_by_criteria(..., first_fr=False, by='block'): the
\* stimulus frames of the segments get_segs_by_criteria returns, per block
GetStimFrByCriteria(df, st, blocks, c, remconsec) ==
    LET q      == GetSegsByCriteria(df, st, blocks, c, remconsec)
        list   == StimSegList(df, st)
        FrOf(seg) == SortedSeq({f - 1 : f \in {f \in 1..Len(list) : list[f] = seg}})
        perblk == [b \in 1..Len(q.segs) |->
                      Flatten([k \in 1..Len(q.segs[b]) |-> FrOf(q.segs[b][k])])]
        frames == SelectSeq(perblk, LAMBDA l : l # <<>>)
    IN  IF q.raised \/ frames = <<>> THEN [raised |-> TRUE, frames |-> <<>>]
        ELSE [raised |-> FALSE, frames |-> frames]

\* Stim.get_twop_fr_by_seg([seg], first=True): start2pfr of the rows
TwopFrFirst(df, st, seg) ==
    {df[k].start2pfr : k \in {k \in 1..Len(df) :
        df[k].stimType = StimTypeCode(st) /\ df[k].stimSeg = seg}}

\* Stim.get_twop_fr_by_seg([seg], last=True): end2pfr of the rows
TwopFrLast(df, st, seg) ==
    {df[k].end2pfr : k \in {k \in 1..Len(df) :
        df[k].stimType = StimTypeCode(st) /\ df[k].stimSeg = seg}}

\* the criteria of a call that passes nothing
NoCriteria ==
    [stimPar1 |-> AnyVal, stimPar2 |-> AnyVal, surp |-> AnyVal, stimSeg |-> AnyVal,
     gabfr |-> AnyVal, start2pfr |-> AnyVal, end2pfr |-> AnyVal, num2pfr |-> AnyVal,
     gabk |-> NoneVal, gab_ori |-> NoneVal, bri_size |-> NoneVal, bri_dir |-> NoneVal]

----------------------------------------------------------------------------
\* quint_analys.quint_segs

\* seg_max = np.max(all_segs) + 1 without the + 1
SegMaxNoInc(all_segs) ==
    IF all_segs = <<>> THEN 0
    ELSE SetMax({all_segs[k] : k \in 1..Len(all_segs)})

\* seg_min = np.min(all_segs), or 0 when there are none
SegMin(all_segs) ==
    IF all_segs = <<>> THEN 0
    ELSE SetMin({all_segs[k] : k \in 1..Len(all_segs)})

\* seg_max = np.max(all_segs) + 1, or 0 when there are none
SegMax(all_segs) ==
    IF all_segs = <<>> THEN 0
    ELSE SetMax({all_segs[k] : k \in 1..Len(all_segs)}) + 1

\* a variant whose upper bound is included
InQuintClosed(seg, q, seg_min, seg_max, n_quints) ==
    /\ (seg - seg_min) * n_quints >= q * (seg_max - seg_min)
    /\ (seg - seg_min) * n_quints <= (q + 1) * (seg_max - seg_min)

\* seg >= q * qu_len + seg_min and seg < (q + 1) * qu_len + seg_min, with
\* qu_len = (seg_max - seg_min) / float(n_quints), cleared of the division
InQuint(seg, q, seg_min, seg_max, n_quints) ==
    /\ (seg - seg_min) * n_quints >= q * (seg_max - seg_min)
    /\ (seg - seg_min) * n_quints < (q + 1) * (seg_max - seg_min)

\* a variant that passes surp to the first query as well
BoundsCriteriaSurp(stimpar, surp) ==
    [NoCriteria EXCEPT !.gabk = stimpar.gabk, !.bri_dir = stimpar.bri_dir,
                       !.bri_size = stimpar.bri_size, !.surp = surp]

\* the criteria of the first query of quint_segs, whose segments give
\* seg_min and seg_max: gabk, bri_dir and bri_size only
BoundsCriteria(stimpar, surp) ==
    [NoCriteria EXCEPT !.gabk = stimpar.gabk, !.bri_dir = stimpar.bri_dir,
                       !.bri_size = stimpar.bri_size]

\* a variant whose except clause raises whatever empty_ok is
CatchEmptyNever(q, empty_ok) == q

\* try: all_segs = stim.get_segs_by_criteria(...)
\* except ValueError as err: if empty_ok: all_segs = [] else: raise err
CatchEmpty(q, empty_ok) ==
    IF q.raised /\ empty_ok THEN [raised |-> FALSE, segs |-> <<>>] ELSE q

\* quint_segs(stim, stimpar, n_quints, 'all', surp, empty_ok, remconsec)
QuintSegs(df, st, blocks, stimpar, n_quints, surp, empty_ok, remconsec) ==
    LET q1 == CatchEmpty(GetSegsByCriteria(df, st, blocks,
                 BoundsCriteria(stimpar, surp), FALSE), empty_ok)
        bounds == Flatten(q1.segs)
        q2 == CatchEmpty(GetSegsByCriteria(df, st, blocks,
                 [NoCriteria EXCEPT !.gabfr = stimpar.gabfr,
                                    !.gabk = stimpar.gabk,
                                    !.gab_ori = stimpar.gab_ori,
                                    !.bri_dir = stimpar.bri_dir,
                                    !.bri_size = stimpar.bri_size,
                                    !.surp = surp], remconsec),
                         empty_ok)
        all_segs == Flatten(q2.segs)
        qu_segs == [q \in 1..n_quints |->
                       SelectSeq(all_segs,
                           LAMBDA seg : InQuint(seg, q - 1, SegMin(bounds),
                                                SegMax(bounds), n_quints))]
    IN  IF q1.raised \/ q2.raised
        THEN [raised |-> TRUE]
        ELSE [raised |-> FALSE,
              qu_segs |-> qu_segs,
              qu_counts |-> [q \in 1..n_quints |-> Len(qu_segs[q])]]


----------------------------------------------------------------------------
\* sess_load_util.modify_bri_segs

\* the rows of the bricks, in table order
BriRows(df) == SelectSeq(df, LAMBDA row : row.stimType = "b")

\* break_idx = np.where(num_fr != bri_num_fr)[0], with
\* bri_num_fr = np.diff(bri_st_fr) and num_fr = num2pfr[:-1]
BreakIdx(df) ==
    LET bri == BriRows(df)
    IN  SortedSeq({i \in 0..(Len(bri) - 2) :
            At(bri, i).num2pfr # At(bri, i + 1).start2pfr - At(bri, i).start2pfr})

\* the offset without the + 1
BriSegOffsetNoInc(last_seg1) == last_seg1

\* new_idx = stim_df.loc[seg_idx]["stimSeg"] + last_seg1 + 1
BriSegOffset(last_seg1) == last_seg1 + 1

\* modify_bri_segs(stim_df, runtype): the table returned, or RuntimeError
ModifyBriSegs(df, rt) ==
    IF rt # "prod" THEN [raised |-> FALSE, stim_df |-> df]
    ELSE IF Len(BreakIdx(df)) # 1 THEN [raised |-> TRUE, stim_df |-> df]
    ELSE LET last_fr1  == At(BriRows(df), BreakIdx(df)[1]).start2pfr
             last_seg1 == SetMin({df[k].stimSeg : k \in {k \in 1..Len(df) :
                             df[k].stimType = "b"
                                /\ df[k].start2pfr = last_fr1}})
         IN  [raised |-> FALSE,
              stim_df |-> [k \in 1..Len(df) |->
                  IF df[k].stimType = "b" /\ df[k].start2pfr > last_fr1
                  THEN [df[k] EXCEPT
                           !.stimSeg = @ + BriSegOffset(last_seg1)]
                  ELSE df[k]]]

----------------------------------------------------------------------------
\* The tables a session is loaded with (align['stim_df']): rows in the order
\* shown, each segment ending where the next one of its run starts

Par1(st, id) ==
    IF st = "gabors" THEN (IF (id \div 2) % 2 = 0 THEN "0" ELSE "90")
    ELSE (IF (id \div 2) % 2 = 0 THEN "128" ELSE "256")

Par2(st, blk) ==
    IF st = "gabors" THEN (IF blk = 1 THEN "4" ELSE "16")
    ELSE (IF blk = 1 THEN "right" ELSE "left")

Row(st, id, blk, surp, start, num) ==
    [stimType |-> StimTypeCode(st), stimPar1 |-> Par1(st, id),
     stimPar2 |-> Par2(st, blk), surp |-> surp, stimSeg |-> id,
     gabfr |-> IF st = "gabors" THEN id % NSegPerSet ELSE -1,
     start2pfr |-> start, end2pfr |-> start + num, num2pfr |-> num]

\* n segments 0..n-1 from frame t0 on, of nfr or nfr + 1 frames in turn;
\* segments from id split on belong to the second block
RECURSIVE SegRows(_, _, _, _, _, _, _)
SegRows(st, id, n, split, surps, t0, nfr) ==
    IF id >= n THEN <<>>
    ELSE LET num == nfr + (id % 2)
         IN  <<Row(st, id, IF split > 0 /\ id >= split THEN 2 ELSE 1,
                   IF id + 1 <= Len(surps) THEN surps[id + 1] ELSE 0,
                   t0, num)>>
                \o SegRows(st, id + 1, n, split, surps, t0 + num, nfr)

OtherStim(st) == IF st = "gabors" THEN "bricks" ELSE "gabors"

LastEnd(rows, t0) == IF rows = <<>> THEN t0 ELSE rows[Len(rows)].end2pfr

\* the table of a session with n segments of the queried stimulus followed,
\* after one grayscreen frame, by one segment of the other stimulus
StimTable(st, n, split, surps, nfr) ==
    LET own == SegRows(st, 0, n, split, surps, nfr, nfr)
    IN  own \o SegRows(OtherStim(st), 0, 1, 0, <<>>, LastEnd(own, 0) + 1, nfr)

\* the block ranges of that stimulus: one display sequence of one block, or
\* of two blocks meeting at split
BlocksOf(n, split) ==
    IF split = 0 THEN << << <<0, n>> >> >>
    ELSE << << <<0, split>>, <<split, n>> >> >>

\* the table of a production session: two parts of bricks numbered from 0
\* each, and one gabor segment before, between or after them; gap grayscreen
\* frames lie between two stimuli, glitch frames inside the second part
BriTable(n1, n2, gabpos, gap, glitch, nfr) ==
    LET g0 == IF gabpos = 0 THEN SegRows("gabors", 0, 1, 0, <<>>, 0, nfr)
              ELSE <<>>
        b1 == SegRows("bricks", 0, n1, 0, <<>>, LastEnd(g0, 0) + gap, nfr)
        g1 == IF gabpos = 1
              THEN SegRows("gabors", 0, 1, 0, <<>>, LastEnd(b1, 0) + gap, nfr)
              ELSE <<>>
        t2 == IF gabpos = 1 THEN LastEnd(g1, 0) + gap ELSE LastEnd(b1, 0) + gap
        b2 == [k \in 1..n2 |->
                 LET r == SegRows("bricks", 0, n2, n2, <<>>, t2, nfr)[k]
                 IN  IF k >= 2
                     THEN [r EXCEPT !.start2pfr = @ + glitch,
                                    !.end2pfr = @ + glitch]
                     ELSE r]
        g2 == IF gabpos = 2
              THEN SegRows("gabors", 0, 1, 0, <<>>, LastEnd(b2, 0) + gap, nfr)
              ELSE <<>>
    IN  g0 \o b1 \o g1 \o b2 \o g2

----------------------------------------------------------------------------
\* State machine of the segment table

StimIdle ==
    /\ stim_df = <<>>
    /\ call = [op |-> "none"]
    /\ ret = [raised |-> FALSE]

\* a loaded session with its Stim object: table and block ranges
StimInit ==
    /\ runtype = "pilot"
    /\ stimtype \in {"gabors", "bricks"}
    /\ \E n \in 1..MaxSegs, nfr \in 1..MaxNumFr :
       \E split \in {0, n \div 2}, surps \in [1..n -> {0, 1}] :
          /\ stim_df = StimTable(stimtype, n, split, surps, nfr)
          /\ block_ran_seg = BlocksOf(n, split)
          /\ act_n_blocks = Len(block_ran_seg[1])
    /\ disp_seq = <<>>
    /\ exp_block_len_s = 2
    /\ blank_per = 0
    /\ seg_ps_wibl = 1
    /\ block_log = {}
    /\ block_pc = "set"
    /\ call = [op |-> "none"]
    /\ ret = [raised |-> FALSE]

SurpChoices == {AnyVal, Vals({0}), Vals({1})}

\* the StimPar tuples passed: gabor fields for gabors, brick fields for
\* bricks (the fields of the other stimulus are 'none')
StimPars(st) ==
    IF st = "gabors"
    THEN {[gabfr |-> f, gabk |-> k, gab_ori |-> AnyVal,
           bri_dir |-> NoneVal, bri_size |-> NoneVal] :
             f \in {AnyVal, Vals({0})}, k \in {AnyVal, Vals({"4"})}}
    ELSE {[gabfr |-> NoneVal, gabk |-> NoneVal, gab_ori |-> NoneVal,
           bri_dir |-> d, bri_size |-> AnyVal] :
             d \in {AnyVal, Vals({"right"})}}

\* quint_segs(stim, stimpar, n_quints, 'all', surp, empty_ok, remconsec)
QuintSegsCall ==
    /\ call.op = "none"
    /\ \E stimpar \in StimPars(stimtype), n_quints \in 1..MaxQuints,
          surp \in SurpChoices, empty_ok \in BOOLEAN, remconsec \in BOOLEAN :
          /\ call' = [op |-> "quint_segs", stimpar |-> stimpar,
                      n_quints |-> n_quints, surp |-> surp,
                      empty_ok |-> empty_ok, remconsec |-> remconsec]
          /\ ret' = QuintSegs(stim_df, stimtype, block_ran_seg, stimpar,
                              n_quints, surp, empty_ok, remconsec)
    /\ UNCHANGED <<stim_df, blockVars>>
    /\ UNCHANGED notStim

\* the ids of the stimulus' segments in the table
OwnSegs == GetDfVals(stim_df, "stimType", StimTypeCode(stimtype), "stimSeg")

\* first and last 2p frame of a segment by get_twop_fr_by_seg, then
\* get_segs_by_criteria(start2pfr=[first, last + 1], by='seg')
RoundTripCall ==
    /\ call.op = "none"
    /\ \E seg \in OwnSegs :
          LET first == SetMin(TwopFrFirst(stim_df, stimtype, seg))
              last  == SetMin(TwopFrLast(stim_df, stimtype, seg))
              q     == GetSegsByCriteria(stim_df, stimtype, block_ran_seg,
                          [NoCriteria EXCEPT
                              !.start2pfr = Range(first, last + 1)], FALSE)
          IN  /\ call' = [op |-> "round_trip", seg |-> seg]
              /\ ret' = [raised |-> q.raised, first |-> first,
                         last |-> last, segs |-> Flatten(q.segs)]
    /\ UNCHANGED <<stim_df, blockVars>>
    /\ UNCHANGED notStim

StimNext == QuintSegsCall \/ RoundTripCall

\* the criteria-filtered segments that quint_segs distributes: those of its
\* second get_segs_by_criteria call, none if that call found nothing
C1_Filtered ==
    Flatten(GetSegsByCriteria(stim_df, stimtype, block_ran_seg,
        [NoCriteria EXCEPT !.gabfr = call.stimpar.gabfr,
                           !.gabk = call.stimpar.gabk,
                           !.gab_ori = call.stimpar.gab_ori,
                           !.bri_dir = call.stimpar.bri_dir,
                           !.bri_size = call.stimpar.bri_size,
                           !.surp = call.surp], call.remconsec).segs)

SeqSet(sq) == {sq[k] : k \in 1..Len(sq)}

\* C1: quint_segs with qu_idx='all' returns, for every n_quints >= 1 and
\* every criteria-filtered segment set S, lists that are pairwise disjoint,
\* hold no segment twice, together hold exactly the segments of S, and whose
\* counts are the lengths of the lists.
C1_QuintPartition ==
    (call.op = "quint_segs" /\ ~ret.raised) =>
        /\ Len(ret.qu_segs) = call.n_quints
        /\ Len(ret.qu_counts) = call.n_quints
        /\ \A q \in 1..call.n_quints :
              /\ ret.qu_counts[q] = Len(ret.qu_segs[q])
              /\ Cardinality(SeqSet(ret.qu_segs[q])) = Len(ret.qu_segs[q])
        /\ \A q1 \in 1..call.n_quints, q2 \in 1..call.n_quints :
              q1 # q2 => SeqSet(ret.qu_segs[q1]) \cap SeqSet(ret.qu_segs[q2]) = {}
        /\ SeqSet(Flatten(ret.qu_segs)) = SeqSet(C1_Filtered)
        /\ Len(Flatten(ret.qu_segs)) = Len(C1_Filtered)

\* several quintiles, more than one of them filled, and every segment of the
\* stimulus among those distributed
C1_Witness ==
    /\ call.op = "quint_segs"
    /\ ~ret.raised
    /\ call.n_quints >= 2
    /\ Len(C1_Filtered) >= 3
    /\ Cardinality({q \in 1..call.n_quints : ret.qu_segs[q] # <<>>}) >= 2

\* the rows of the table, inside a block, that fit the criteria quint_segs
\* passes to its second query
C12_Matches ==
    LET f == FormatStimCriteria(stim_df, stimtype,
                [NoCriteria EXCEPT !.gabfr = call.stimpar.gabfr,
                                   !.gabk = call.stimpar.gabk,
                                   !.gab_ori = call.stimpar.gab_ori,
                                   !.bri_dir = call.stimpar.bri_dir,
                                   !.bri_size = call.stimpar.bri_size,
                                   !.surp = call.surp])
        flat == Flatten(block_ran_seg)
    IN  {k \in 1..Len(stim_df) :
            /\ RowFits(stim_df[k], stimtype, f)
            /\ \E b \in 1..Len(flat) : /\ stim_df[k].stimSeg >= flat[b][1]
                                       /\ stim_df[k].stimSeg < flat[b][2]}

\* C12: a criteria query that matches zero segments raises, and quint_segs
\* propagates the error when empty_ok is False; with empty_ok=True it
\* returns, without raising, an empty list for every quintile asked for and
\* a count of 0 for each.
C12_EmptyHandling ==
    (call.op = "quint_segs" /\ C12_Matches = {}) =>
        IF call.empty_ok
        THEN /\ ~ret.raised
             /\ Len(ret.qu_segs) = call.n_quints
             /\ Len(ret.qu_counts) = call.n_quints
             /\ \A q \in 1..call.n_quints :
                   ret.qu_segs[q] = <<>> /\ ret.qu_counts[q] = 0
        ELSE ret.raised

\* nothing fits the surprise filter although the stimulus has segments, and
\* several empty quintiles are returned
C12_Witness ==
    /\ call.op = "quint_segs"
    /\ C12_Matches = {}
    /\ call.empty_ok
    /\ ~ret.raised
    /\ call.n_quints >= 2
    /\ call.surp # AnyVal
    /\ Len(stim_df) >= 3

\* the segments of the stimulus that fit the stimulus parameters whatever
\* their surprise value and Gabor frame: the set seg_min and seg_max are of
C17_Unfiltered ==
    Flatten(GetSegsByCriteria(stim_df, stimtype, block_ran_seg,
               [NoCriteria EXCEPT !.gabk = call.stimpar.gabk,
                                  !.bri_dir = call.stimpar.bri_dir,
                                  !.bri_size = call.stimpar.bri_size],
               FALSE).segs)

C17_SegMin == SetMin(SeqSet(C17_Unfiltered))

C17_SegMax == SetMax(SeqSet(C17_Unfiltered)) + 1

\* seg_min + q * bin_width <= id < seg_min + (q + 1) * bin_width with
\* bin_width = (seg_max - seg_min) / n_quints, multiplied by n_quints
C17_InBin(id, q, seg_min, seg_max, n_quints) ==
    /\ seg_min * n_quints + q * (seg_max - seg_min) <= id * n_quints
    /\ id * n_quints < seg_min * n_quints + (q + 1) * (seg_max - seg_min)

\* quint_segs for the ids 0..99 as both the unfiltered and the returned set
C17_Ids == [k \in 1..100 |-> k - 1]

C17_ExMin == SegMin(C17_Ids)

C17_ExMax == SegMax(C17_Ids)

C17_Example ==
    [q \in 0..3 |->
        SelectSeq(C17_Ids, LAMBDA id : InQuint(id, q, C17_ExMin, C17_ExMax, 4))]

C17_ExampleHolds ==
    /\ SeqSet(C17_Example[0]) = 0..24
    /\ SeqSet(C17_Example[3]) = 75..99
    /\ \A q \in 0..3 : Len(C17_Example[q]) = 25

\* C17: quint_segs puts a segment id in quintile q iff
\* seg_min + q*bin_width <= id < seg_min + (q+1)*bin_width with
\* bin_width = (seg_max - seg_min)/n_quints; when the ids are the contiguous
\* integers m..M the quintile counts differ by at most 1; for ids 0..99 and
\* n_quints=4 quintile 0 is 0..24, quintile 3 is 75..99, every count is 25.
C17_BinMembership ==
    /\ (call.op = "quint_segs" /\ ~ret.raised /\ C17_Unfiltered # <<>>) =>
          LET filtered == C1_Filtered
              seg_min  == C17_SegMin
              seg_max  == C17_SegMax
          IN  /\ \A q \in 1..call.n_quints :
                    ret.qu_segs[q] = SelectSeq(filtered,
                        LAMBDA id : C17_InBin(id, q - 1, seg_min, seg_max,
                                              call.n_quints))
              /\ SeqSet(filtered) = seg_min..(seg_max - 1) =>
                    \A q1 \in 1..call.n_quints, q2 \in 1..call.n_quints :
                       ret.qu_counts[q1] - ret.qu_counts[q2] <= 1
    /\ C17_ExampleHolds

\* contiguous ids shared out over several quintiles in unequal numbers
C17_Witness ==
    /\ call.op = "quint_segs"
    /\ ~ret.raised
    /\ call.n_quints >= 2
    /\ Len(C1_Filtered) >= 3
    /\ SeqSet(C1_Filtered) = C17_SegMin..(C17_SegMax - 1)
    /\ \E q1 \in 1..call.n_quints, q2 \in 1..call.n_quints :
          ret.qu_counts[q1] = ret.qu_counts[q2] + 1

\* quint_segs of the same stimulus and stimulus parameters with another
\* surp filter
C18_Other(surp) ==
    QuintSegs(stim_df, stimtype, block_ran_seg, call.stimpar, call.n_quints,
              surp, TRUE, call.remconsec)

\* the quintile index a call puts a segment in
C18_QuintsOf(qu_segs, seg) ==
    {q \in 1..Len(qu_segs) : seg \in SeqSet(qu_segs[q])}

\* C18: the quintile boundaries of quint_segs come from the segment set that
\* is not filtered by surprise: for any two surp filters on the same stimulus
\* and stimulus parameters, a segment id returned under both is in the same
\* quintile index.
C18_SurpIndependent ==
    (call.op = "quint_segs" /\ ~ret.raised) =>
        \A surp \in SurpChoices :
           LET other == C18_Other(surp).qu_segs
           IN  \A seg \in SeqSet(Flatten(ret.qu_segs)) :
                  seg \in SeqSet(Flatten(other)) =>
                     C18_QuintsOf(other, seg) = C18_QuintsOf(ret.qu_segs, seg)

\* a surprise filter that leaves out the lowest segments of the stimulus, and
\* a segment it keeps that the unfiltered call returns too, not in quintile 0
C18_Witness ==
    /\ call.op = "quint_segs"
    /\ ~ret.raised
    /\ call.n_quints >= 2
    /\ call.surp = Vals({1})
    /\ C1_Filtered # <<>>
    /\ SetMin(SeqSet(C1_Filtered)) > C17_SegMin
    /\ \E seg \in SeqSet(Flatten(ret.qu_segs)) :
          /\ seg \in SeqSet(Flatten(C18_Other(AnyVal).qu_segs))
          /\ C18_QuintsOf(ret.qu_segs, seg) # {1}
          /\ C18_QuintsOf(ret.qu_segs, seg) # {}

\* C3: for every segment id s the first 2p frame is <= the last 2p frame, and
\* the criteria query restricted to start2pfr in
\* [first_frame_of(s), last_frame_of(s) + 1) returns exactly the segment s.
C3_RoundTrip ==
    call.op = "round_trip" =>
        /\ ret.first <= ret.last
        /\ ~ret.raised
        /\ ret.segs = <<call.seg>>


----------------------------------------------------------------------------
\* Criteria queries of a Stim object

\* a grayscreen row: segment id -1, before the first segment
GrayRow(st) ==
    [stimType |-> StimTypeCode(st), stimPar1 |-> Par1(st, 0),
     stimPar2 |-> Par2(st, 1), surp |-> 0, stimSeg |-> -1, gabfr |-> -1,
     start2pfr |-> 0, end2pfr |-> 1, num2pfr |-> 1]

\* a loaded session with its Stim object; the table may hold a grayscreen row
QueryInit ==
    /\ runtype = "pilot"
    /\ stimtype \in {"gabors", "bricks"}
    /\ \E n \in 1..MaxSegs, gray \in BOOLEAN :
       \E split \in {0, n \div 2}, surps \in [1..n -> {0, 1}] :
          /\ stim_df = (IF gray THEN <<GrayRow(stimtype)>> ELSE <<>>)
                          \o StimTable(stimtype, n, split, surps, 1)
          /\ block_ran_seg = BlocksOf(n, split)
          /\ act_n_blocks = Len(block_ran_seg[1])
    /\ disp_seq = <<>>
    /\ exp_block_len_s = 2
    /\ blank_per = 0
    /\ seg_ps_wibl = 1
    /\ block_log = {}
    /\ block_pc = "set"
    /\ call = [op |-> "none"]
    /\ ret = [raised |-> FALSE]

\* the semantic parameters with the names of the stimulus: gabk or bri_dir
\* for stimPar2, gab_ori or bri_size for stimPar1
WithSemantic(st, c, sem1, sem2) ==
    IF st = "gabors" THEN [c EXCEPT !.gab_ori = sem1, !.gabk = sem2]
    ELSE [c EXCEPT !.bri_size = sem1, !.bri_dir = sem2]

\* the criteria passed to the queries
QueryCriteria(st) ==
    {WithSemantic(st, [NoCriteria EXCEPT !.stimPar2 = gen2, !.surp = surp,
                                         !.stimSeg = seg], sem1, sem2) :
        gen2 \in {AnyVal, Vals({Par2(st, 2)})},
        sem2 \in {NoneVal, AnyVal, Vals({Par2(st, 1)}), Vals({Par2(st, 2)})},
        sem1 \in {NoneVal, Vals({Par1(st, 0)})},
        surp \in SurpChoices,
        seg \in {AnyVal, Vals({-1, 0})}}

\* stim.get_segs_by_criteria(..., remconsec=remconsec, by='block')
GetSegsCall ==
    /\ call.op = "none"
    /\ \E c \in QueryCriteria(stimtype), remconsec \in BOOLEAN :
          /\ call' = [op |-> "get_segs", c |-> c, remconsec |-> remconsec]
          /\ ret' = GetSegsByCriteria(stim_df, stimtype, block_ran_seg, c,
                                      remconsec)
    /\ UNCHANGED <<stim_df, blockVars>>
    /\ UNCHANGED notStim

\* stim.get_stim_df_by_criteria(...)
GetStimDfCall ==
    /\ call.op = "none"
    /\ \E c \in QueryCriteria(stimtype) :
          /\ call' = [op |-> "get_stim_df", c |-> c]
          /\ ret' = GetStimDfByCriteria(stim_df, stimtype, c)
    /\ UNCHANGED <<stim_df, blockVars>>
    /\ UNCHANGED notStim

\* stim.get_stim_fr_by_criteria(..., first_fr=False, by='block')
GetStimFrCall ==
    /\ call.op = "none"
    /\ \E c \in QueryCriteria(stimtype) :
          /\ call' = [op |-> "get_stim_fr", c |-> c]
          /\ ret' = GetStimFrByCriteria(stim_df, stimtype, block_ran_seg, c,
                                        FALSE)
    /\ UNCHANGED <<stim_df, blockVars>>
    /\ UNCHANGED notStim

\* the 2p frame criteria passed: 'any', a [min, max] list, or a list of
\* another length
FrameCriteria == {AnyVal, Range(1, 3), BadLen}

\* stim.get_stim_df_by_criteria(start2pfr=..., end2pfr=..., num2pfr=...)
GetStimDfRangeCall ==
    /\ call.op = "none"
    /\ \E s \in FrameCriteria, e \in FrameCriteria, n \in FrameCriteria :
          LET c == [NoCriteria EXCEPT !.start2pfr = s, !.end2pfr = e,
                                      !.num2pfr = n]
          IN  /\ call' = [op |-> "get_stim_df_range", c |-> c]
              /\ ret' = GetStimDfByCriteria(stim_df, stimtype, c)
    /\ UNCHANGED <<stim_df, blockVars>>
    /\ UNCHANGED notStim

QueryNext ==
    GetSegsCall \/ GetStimDfCall \/ GetStimFrCall \/ GetStimDfRangeCall

\* the ids of block j that fit the criteria of the call
C11_Matching(j) ==
    LET f == FormatStimCriteria(stim_df, stimtype, call.c)
    IN  {stim_df[k].stimSeg : k \in {k \in 1..Len(stim_df) :
            /\ RowFits(stim_df[k], stimtype, f)
            /\ stim_df[k].stimSeg >= j[1]
            /\ stim_df[k].stimSeg < j[2]}}

\* what C11 says a block returns
C11_Kept(j) ==
    SortedSeq({seg \in C11_Matching(j) :
                  call.remconsec => (seg - 1) \notin C11_Matching(j)})

\* C11: get_segs_by_criteria with remconsec=True returns, within each block,
\* exactly the matching ids s for which s-1 is not a matching id of that
\* block (the first id of every run of matching ids increasing by 1); with
\* remconsec=False it returns every matching id.
C11_RemConsec ==
    (call.op = "get_segs" /\ ~ret.raised) =>
        LET flat == Flatten(block_ran_seg)
        IN  ret.segs = SelectSeq([b \in 1..Len(flat) |-> C11_Kept(flat[b])],
                                 LAMBDA l : l # <<>>)

\* a block with a run of at least two matching ids, cut down to fewer ids
C11_Witness ==
    /\ call.op = "get_segs"
    /\ ~ret.raised
    /\ call.remconsec
    /\ \E b \in 1..Len(Flatten(block_ran_seg)) :
          LET j == Flatten(block_ran_seg)[b]
          IN  /\ Cardinality(C11_Matching(j)) >= 3
              /\ Len(C11_Kept(j)) >= 2
              /\ Len(C11_Kept(j)) < Cardinality(C11_Matching(j))

\* the semantic parameters of the call for stimPar1 and stimPar2
C14_Sem1 == IF stimtype = "gabors" THEN call.c.gab_ori ELSE call.c.bri_size

C14_Sem2 == IF stimtype = "gabors" THEN call.c.gabk ELSE call.c.bri_dir

\* the values observed in a column for the stimulus of the Stim object
C14_Observed(name) ==
    {stim_df[k][name] : k \in {k \in 1..Len(stim_df) :
        stim_df[k].stimType = StimTypeCode(stimtype)}}

\* what C14 says a column is constrained by: the semantic parameter when it
\* is passed ('any' standing for the values observed), else the generic one
C14_Column(sem, gen, name) ==
    IF sem.kind = "none" THEN GetDfLabelVals(stim_df, name, gen)
    ELSE IF sem.kind = "any" THEN C14_Observed(name)
    ELSE sem.vals

\* the rows C14 lets through
C14_Rows ==
    LET f  == FormatStimCriteria(stim_df, stimtype, call.c)
        f2 == [f EXCEPT
                  !.stimPar1 = C14_Column(C14_Sem1, call.c.stimPar1, "stimPar1"),
                  !.stimPar2 = C14_Column(C14_Sem2, call.c.stimPar2, "stimPar2")]
    IN  SelectSeq(stim_df, LAMBDA row : RowFits(row, stimtype, f2))

\* C14: a semantic parameter that is passed (gabk, gab_ori for Gabors,
\* bri_size, bri_dir for Bricks; a value, a list or 'any') constrains its
\* generic column and the generic argument is ignored; 'any' stands for all
\* the values observed for the stimulus.
C14_SemanticOverrides ==
    (call.op = "get_stim_df" /\ ~ret.raised) => ret.rows = C14_Rows

\* the generic and the semantic parameter for stimPar2 both name values, and
\* not the same ones
C15_Disagree ==
    /\ call.c.stimPar2.kind = "vals"
    /\ C14_Sem2.kind = "vals"
    /\ call.c.stimPar2.vals # C14_Sem2.vals

\* C15: passing both the generic and the semantic parameter of a column is an
\* error exactly when they disagree: the query raises when the two name
\* different values, and get_stim_df_by_criteria raises in no other case.
C15_DisagreeRaises ==
    /\ (call.op \in {"get_stim_df", "get_segs", "get_stim_fr"} /\ C15_Disagree)
          => ret.raised
    /\ (call.op = "get_stim_df" /\ ret.raised) => C15_Disagree

\* the stimulus segment list of the Stim object
C16_List == StimSegList(stim_df, stimtype)

\* C16: no criteria query returns segment id -1: neither a row of
\* get_stim_df_by_criteria, nor an id of get_segs_by_criteria, nor a frame of
\* get_stim_fr_by_criteria shown during a grayscreen.
C16_NoGray ==
    /\ (call.op = "get_stim_df" /\ ~ret.raised) =>
          \A k \in 1..Len(ret.rows) : ret.rows[k].stimSeg # -1
    /\ (call.op = "get_segs" /\ ~ret.raised) =>
          \A k \in 1..Len(Flatten(ret.segs)) : Flatten(ret.segs)[k] # -1
    /\ (call.op = "get_stim_fr" /\ ~ret.raised) =>
          \A k \in 1..Len(Flatten(ret.frames)) :
             C16_List[Flatten(ret.frames)[k] + 1] # -1

\* the table holds a grayscreen row of the stimulus, the query asks for
\* stimSeg -1 or does not constrain stimSeg, and rows were returned
C16_Witness ==
    /\ call.op = "get_stim_df"
    /\ ~ret.raised
    /\ ret.rows # <<>>
    /\ \E k \in 1..Len(stim_df) :
          /\ stim_df[k].stimSeg = -1
          /\ stim_df[k].stimType = StimTypeCode(stimtype)
          /\ RowFits([stim_df[k] EXCEPT !.stimSeg = 0], stimtype,
                     FormatStimCriteria(stim_df, stimtype, call.c))
    /\ -1 \in GetDfLabelVals(stim_df, "stimSeg", call.c.stimSeg)

\* a row meets a frame criterion on its own column
C30_Meets(row, label, v) ==
    v.kind = "range" => (row[label] >= v.lo /\ row[label] < v.hi)

\* C30: _format_stim_criteria validates each 2p frame range criterion
\* (start2pfr, end2pfr, num2pfr) on its own: a [min, max) range is accepted
\* and constrains its own column whatever the other two are ('any'
\* included), and a criterion of any other length raises ValueError.
C30_RangeCriteria ==
    call.op = "get_stim_df_range" =>
        IF \E label \in {"start2pfr", "end2pfr", "num2pfr"} :
              call.c[label].kind = "badlen"
        THEN ret.raised
        ELSE /\ ~ret.raised
             /\ ret.rows = SelectSeq(stim_df, LAMBDA row :
                    /\ row.stimType = StimTypeCode(stimtype)
                    /\ row.stimSeg # -1
                    /\ C30_Meets(row, "start2pfr", call.c.start2pfr)
                    /\ C30_Meets(row, "end2pfr", call.c.end2pfr)
                    /\ C30_Meets(row, "num2pfr", call.c.num2pfr))

\* a session whose table was just read from the alignment pickle
BriInit ==
    /\ runtype \in {"pilot", "prod"}
    /\ stimtype = "bricks"
    /\ \E n1 \in 1..MaxBriSegs, n2 \in 1..MaxBriSegs, gabpos \in 0..2,
          gap \in 0..1, glitch \in 0..1, nfr \in 1..MaxNumFr :
          stim_df = BriTable(n1, n2, gabpos, gap, glitch, nfr)
    /\ disp_seq = <<>>
    /\ exp_block_len_s = 2
    /\ blank_per = 0
    /\ seg_ps_wibl = 1
    /\ block_ran_seg = <<>>
    /\ act_n_blocks = 0
    /\ block_log = {}
    /\ block_pc = "new"
    /\ call = [op |-> "none"]
    /\ ret = [raised |-> FALSE]

\* load_stim_df_info calling modify_bri_segs(stim_df, runtype)
ModifyBriSegsCall ==
    /\ call.op = "none"
    /\ LET res == ModifyBriSegs(stim_df, runtype)
       IN  /\ call' = [op |-> "modify_bri_segs", stim_df |-> stim_df]
           /\ ret' = [raised |-> res.raised]
           /\ stim_df' = res.stim_df
    /\ UNCHANGED blockVars
    /\ UNCHANGED notStim

BriNext == ModifyBriSegsCall

\* the brick rows of the table before the call; the position of the row
\* after which the next brick row does not start where the row ends
C10_OldBri == BriRows(call.stim_df)

C10_Breaks ==
    {i \in 1..(Len(C10_OldBri) - 1) :
        C10_OldBri[i + 1].start2pfr # C10_OldBri[i].end2pfr}

\* there is a single break, and it lies between the two brick parts: the
\* segment ids start again from 0 right after it
C10_SingleBreak ==
    /\ Cardinality(C10_Breaks) = 1
    /\ \A i \in C10_Breaks : C10_OldBri[i + 1].stimSeg = 0

----------------------------------------------------------------------------
\* signif_grps.sep_grps

\* sign_rois of the labels of the ROIs in the first and the last quintile:
\* the significant ROIs of each quintile (one tail), or its <<lo, up>> pair
SignRois(lab, n, t) ==
    IF t = "2"
    THEN [q \in 1..2 |-> <<{r \in 0..(n - 1) : lab[q][r] = "lo"},
                           {r \in 0..(n - 1) : lab[q][r] = "up"}>>]
    ELSE [q \in 1..2 |-> {r \in 0..(n - 1) : lab[q][r] = t}]

\* reg_reg of two tails without the last quintile's lo tail taken out
RegReg2KeepLastLo(sr, n) == (((0..(n - 1)) \ sr[1][2]) \ sr[2][2]) \ sr[1][1]

\* reg_reg = set(all_rois) - sign_rois[0][1] - sign_rois[1][1]
\*                         - sign_rois[0][0] - sign_rois[1][0]
RegReg2(sr, n) ==
    ((((0..(n - 1)) \ sr[1][2]) \ sr[2][2]) \ sr[1][1]) \ sr[2][1]

\* roi_grps before selection: [surp_surp, surp_reg, reg_surp, reg_reg], or
\* the 9 groups of the two tails
ElemGrps(sr, n, t) ==
    IF t \in {"up", "lo"}
    THEN LET surp_surp == sr[1] \cap sr[2]
             surp_reg  == sr[1] \ sr[2]
             reg_surp  == sr[2] \ sr[1]
         IN  <<surp_surp, surp_reg, reg_surp,
               (((0..(n - 1)) \ surp_surp) \ surp_reg) \ reg_surp>>
    ELSE <<sr[1][2] \cap sr[2][2], sr[1][2] \cap sr[2][1],
           sr[1][1] \cap sr[2][2], sr[1][1] \cap sr[2][1],
           (sr[1][2] \ sr[2][2]) \ sr[2][1], (sr[1][1] \ sr[2][2]) \ sr[2][1],
           (sr[2][2] \ sr[1][2]) \ sr[1][1], (sr[2][1] \ sr[1][2]) \ sr[1][1],
           RegReg2(sr, n)>>

GrpNames(t) ==
    IF t \in {"up", "lo"}
    THEN <<"surp_surp", "surp_reg", "reg_surp", "reg_reg">>
    ELSE <<"surpup_surpup", "surpup_surplo", "surplo_surpup",
           "surplo_surplo", "surpup_reg", "surplo_reg",
           "reg_surpup", "reg_surplo", "reg_reg">>

\* a variant whose 'change' leaves out the reversals of direction
GrpIndNoReversal(g, t, reg) ==
    LET one == t \in {"up", "lo"}
        reg_ind == IF one THEN 3 ELSE 8
        ind == CASE g = "all"       -> 0..reg_ind
                 [] g = "change"    -> IF one THEN {1, 2} ELSE {4, 5, 6, 7}
                 [] g = "no_change" -> IF one THEN {0, 3} ELSE {0, 3, 8}
                 [] g = "reduc"     -> IF one THEN {1} ELSE {1, 4, 7}
                 [] g = "incr"      -> IF one THEN {2} ELSE {2, 5, 6}
    IN  SortedSeq(IF reg THEN ind \cup {reg_ind} ELSE ind)

\* grp_ind of a set of groups (0-based), then reg_ind added if add_reg
GrpInd(g, t, reg) ==
    LET one == t \in {"up", "lo"}
        reg_ind == IF one THEN 3 ELSE 8
        ind == CASE g = "all"       -> 0..reg_ind
                 [] g = "change"    -> IF one THEN {1, 2}
                                       ELSE {1, 2, 4, 5, 6, 7}
                 [] g = "no_change" -> IF one THEN {0, 3} ELSE {0, 3, 8}
                 [] g = "reduc"     -> IF one THEN {1} ELSE {1, 4, 7}
                 [] g = "incr"      -> IF one THEN {2} ELSE {2, 5, 6}
    IN  SortedSeq(IF reg THEN ind \cup {reg_ind} ELSE ind)

\* sep_grps(sign_rois, nrois, grps, tails, add_reg) for one set of groups
SepGrps(sr, n, g, t, reg) ==
    LET ind == GrpInd(g, t, reg)
    IN  [roi_grps  |-> [i \in 1..Len(ind) |-> At(ElemGrps(sr, n, t), ind[i])],
         grp_names |-> [i \in 1..Len(ind) |-> At(GrpNames(t), ind[i])]]

GrpIdle ==
    /\ nrois = 0
    /\ tails = "2"
    /\ sign_rois = << <<{}, {}>>, <<{}, {}>> >>
    /\ grps = "none"
    /\ add_reg = FALSE
    /\ roi_grps = <<>>
    /\ grp_names = <<>>

\* the output of the permutation analysis: one label per ROI and quintile
GrpInit ==
    /\ nrois \in 0..MaxRois
    /\ tails \in {"up", "lo", "2"}
    /\ \E lab \in [1..2 -> [0..(nrois - 1) ->
                      IF tails = "2" THEN {"ns", "lo", "up"}
                      ELSE {"ns", tails}]] :
          sign_rois = SignRois(lab, nrois, tails)
    /\ grps = "none"
    /\ add_reg = FALSE
    /\ roi_grps = <<>>
    /\ grp_names = <<>>

SepGrpsCall ==
    /\ grps = "none"
    /\ \E g \in {"all", "change", "no_change", "reduc", "incr"},
          reg \in BOOLEAN :
          /\ grps' = g
          /\ add_reg' = reg
          /\ roi_grps' = SepGrps(sign_rois, nrois, g, tails, reg).roi_grps
          /\ grp_names' = SepGrps(sign_rois, nrois, g, tails, reg).grp_names
    /\ UNCHANGED <<nrois, tails, sign_rois>>
    /\ UNCHANGED notGrp

GrpNext == SepGrpsCall

RECURSIVE SumCard(_)
SumCard(ss) == IF ss = <<>> THEN 0 ELSE Cardinality(ss[1]) + SumCard(Tail(ss))

\* C2: sep_grps with grps='all': for every nrois and every assignment of one
\* significance label per ROI and quintile, the elementary groups returned
\* (4 for one tail, 9 for two) are pairwise disjoint and their sizes sum to
\* nrois: every ROI of range(nrois) lies in exactly one of them.
C2_GrpsPartition ==
    grps = "all" =>
        /\ Len(roi_grps) = IF tails = "2" THEN 9 ELSE 4
        /\ Len(grp_names) = Len(roi_grps)
        /\ \A i \in 1..Len(roi_grps), j \in 1..Len(roi_grps) :
              i # j => roi_grps[i] \cap roi_grps[j] = {}
        /\ SumCard(roi_grps) = nrois
        /\ \A r \in 0..(nrois - 1) :
              Cardinality({i \in 1..Len(roi_grps) : r \in roi_grps[i]}) = 1

\* two tails, several ROIs spread over at least three groups, one of them
\* significant in opposite tails of the two quintiles
C2_Witness ==
    /\ grps = "all"
    /\ tails = "2"
    /\ nrois >= 3
    /\ Cardinality({i \in 1..Len(roi_grps) : roi_grps[i] # {}}) >= 3
    /\ roi_grps[2] # {}


\* the significance label of ROI r in quintile q (1 first, 2 last)
C24_Label(q, r) ==
    IF tails = "2"
    THEN (IF r \in sign_rois[q][1] THEN "lo"
          ELSE IF r \in sign_rois[q][2] THEN "up" ELSE "ns")
    ELSE (IF r \in sign_rois[q] THEN tails ELSE "ns")

\* the ROIs of the groups sep_grps returns for g, without add_reg
C24_Selected(g) ==
    LET res == SepGrps(sign_rois, nrois, g, tails, FALSE).roi_grps
    IN  UNION {res[i] : i \in 1..Len(res)}

----------------------------------------------------------------------------
\* Traces per quintile: quint_analys.trace_stats_by_qu

\* the dummy segment trace_stats_by_qu retries an empty quintile with
DummySeg == 10

\* the errors whose message holds 'No frames'
NoFramesEmpty == "ValueError: No frames: frames list must include at least 1 frame."
NoFramesRemoved == "ValueError: No frames: All frames were removed from list."

\* Session.get_twop_fr_ran(twop_ref_fr, pre, post), in frames: the windows
\* [f - pre, f + post) that lie within the tot frames of the recording
GetTwopFrRan(twop_ref_fr, pre, post, tot) ==
    LET num_ran == SelectSeq(twop_ref_fr,
                       LAMBDA f : f - pre >= 0 /\ f - pre + (pre + post) - 1 < tot)
    IN  IF Len(twop_ref_fr) = 0 THEN [err |-> NoFramesEmpty, nseq |-> 0]
        ELSE IF Len(num_ran) = 0 THEN [err |-> NoFramesRemoved, nseq |-> 0]
        ELSE [err |-> "none", nseq |-> Len(num_ran)]

\* stim.get_twop_fr_by_seg(segs, first=True): start2pfr of the rows of the
\* stimulus whose segment is listed
GetTwopFrBySegFirst(df, st, segs) ==
    LET rows == SelectSeq(df, LAMBDA row : /\ row.stimType = StimTypeCode(st)
                                           /\ row.stimSeg \in SeqSet(segs))
    IN  [k \in 1..Len(rows) |-> rows[k].start2pfr]

\* stim.get_roi_trace_stats(twop_fr, pre, post, ...): the number of
\* sequences the statistics are taken over, or the error raised
GetRoiTraceStats(twop_fr, pre, post, tot) == GetTwopFrRan(twop_fr, pre, post, tot)

\* list.index(val), 0-based
ListIndex(list, val) == SetMin({k \in 1..Len(list) : list[k] = val}) - 1

\* stim.get_stim_fr_by_seg(segs, first=True): list.index raises for a
\* segment that is not in stim_seg_list
GetStimFrBySegFirst(list, segs) ==
    IF \E k \in 1..Len(segs) : segs[k] \notin SeqSet(list)
    THEN [err |-> "ValueError: x is not in list", fr |-> <<>>]
    ELSE [err |-> "none", fr |-> [k \in 1..Len(segs) |-> ListIndex(list, segs[k])]]

\* stim.get_run_array(stim_ref_fr, pre, post): stim_ref_fr[0] is read before
\* anything else; windows out of the tot_run_fr frames are removed
GetRunArray(stim_ref_fr, pre, post, tot_run_fr) ==
    IF Len(stim_ref_fr) = 0 THEN [err |-> "IndexError", nseq |-> 0]
    ELSE [err |-> "none",
          nseq |-> Len(SelectSeq(stim_ref_fr,
                       LAMBDA f : f - pre >= 0 /\ f + post - 1 < tot_run_fr))]

\* one pass of the try block of trace_stats_by_qu for the segments segs
TraceInfo(df, st, segs, p) ==
    IF p.datatype = "roi"
    THEN GetRoiTraceStats(GetTwopFrBySegFirst(df, st, segs), p.pre, p.post,
                          LastEnd(df, 0))
    ELSE LET stim_fr == GetStimFrBySegFirst(StimSegList(df, st), segs)
         IN  IF stim_fr.err # "none" THEN [err |-> stim_fr.err, nseq |-> 0]
             ELSE GetRunArray(stim_fr.fr, p.pre, p.post, Len(StimSegList(df, st)))

\* the except clause: a ValueError with 'No frames' in its message is retried
CaughtNoFrames(err, nan_empty) ==
    nan_empty /\ err \in {NoFramesEmpty, NoFramesRemoved}

\* the two passes of the retry loop for one quintile: the error that leaves
\* the function, or whether trace_info was assigned and rep_nan set
QuTry(df, st, segs, p) ==
    LET a1 == TraceInfo(df, st, segs, p)
        a2 == TraceInfo(df, st, <<DummySeg>>, p)
    IN  IF a1.err = "none"
        THEN [err |-> "none", bound |-> TRUE, info |-> a1, rep_nan |-> FALSE]
        ELSE IF ~CaughtNoFrames(a1.err, p.nan_empty)
        THEN [err |-> a1.err, bound |-> FALSE, info |-> a1, rep_nan |-> FALSE]
        ELSE IF a2.err = "none"
        THEN [err |-> "none", bound |-> TRUE, info |-> a2, rep_nan |-> TRUE]
        ELSE IF ~CaughtNoFrames(a2.err, p.nan_empty)
        THEN [err |-> a2.err, bound |-> FALSE, info |-> a2, rep_nan |-> TRUE]
        ELSE [err |-> "none", bound |-> FALSE, info |-> a2, rep_nan |-> TRUE]

\* the loop over the quintiles from quintile i on; trace_info is the value
\* the name holds when the quintile starts ("unbound" before any assignment)
RECURSIVE TraceStatsFrom(_, _, _, _, _, _, _)
TraceStatsFrom(df, st, qu_segs, p, i, trace_info, qu_stats) ==
    IF i > Len(qu_segs)
    THEN [raised |-> FALSE, err |-> "none", qu_stats |-> qu_stats,
          qu_array |-> IF p.ret_arr THEN qu_stats ELSE <<>>]
    ELSE LET t    == QuTry(df, st, qu_segs[i], p)
             info == IF t.bound THEN [bound |-> TRUE, nseq |-> t.info.nseq]
                     ELSE trace_info
         IN  IF t.err # "none"
             THEN [raised |-> TRUE, err |-> t.err, qu_stats |-> <<>>,
                   qu_array |-> <<>>]
             ELSE IF ~info.bound
             THEN [raised |-> TRUE, err |-> "UnboundLocalError",
                   qu_stats |-> <<>>, qu_array |-> <<>>]
             ELSE TraceStatsFrom(df, st, qu_segs, p, i + 1, info,
                      Append(qu_stats, [nan |-> t.rep_nan, nseq |-> info.nseq]))

\* trace_stats_by_qu(stim, qu_segs, pre, post, ..., datatype, nan_empty)
TraceStatsByQu(df, st, qu_segs, p) ==
    TraceStatsFrom(df, st, qu_segs, p, 1, [bound |-> FALSE, nseq |-> 0], <<>>)

\* a loaded session whose stimulus has few segments, or more than DummySeg
TraceInit ==
    /\ runtype = "pilot"
    /\ stimtype \in {"gabors", "bricks"}
    /\ \E n \in {MaxSegs, DummySeg + 2} :
          /\ stim_df = StimTable(stimtype, n, 0, <<>>, 1)
          /\ block_ran_seg = BlocksOf(n, 0)
          /\ act_n_blocks = Len(block_ran_seg[1])
    /\ disp_seq = <<>>
    /\ exp_block_len_s = 2
    /\ blank_per = 0
    /\ seg_ps_wibl = 1
    /\ block_log = {}
    /\ block_pc = "set"
    /\ call = [op |-> "none"]
    /\ ret = [raised |-> FALSE]

\* the segments of two quintiles as quint_segs returns them with
\* empty_ok=True: either may be empty
TraceQuSegs ==
    {<<q0, q1>> : q0 \in {<<>>, <<0>>, <<0, 1>>}, q1 \in {<<>>, <<2>>, <<2, 3>>}}

TraceStatsCall ==
    /\ call.op = "none"
    /\ \E qu_segs \in TraceQuSegs, datatype \in {"roi", "run"},
          nan_empty \in BOOLEAN, ret_arr \in BOOLEAN, pre \in {0, 1} :
          LET p == [datatype |-> datatype, nan_empty |-> nan_empty,
                    ret_arr |-> ret_arr, pre |-> pre, post |-> 1]
          IN  /\ call' = [op |-> "trace_stats", qu_segs |-> qu_segs, p |-> p]
              /\ ret' = TraceStatsByQu(stim_df, stimtype, qu_segs, p)
    /\ UNCHANGED <<stim_df, blockVars>>
    /\ UNCHANGED notStim

TraceNext == TraceStatsCall

\* the quintiles of the call that would give a trace on their own
C13_Fine(i) ==
    TraceInfo(stim_df, stimtype, call.qu_segs[i], call.p).err = "none"

\* C13: trace_stats_by_qu with nan_empty=True does not raise for an empty
\* quintile, wherever it sits and for datatype 'roi' and 'run' alike: when
\* every non-empty quintile has frames, the call returns, and the statistics
\* (and the array, if ret_arr) of every empty quintile are NaN
C13_NanEmpty ==
    (/\ call.op = "trace_stats"
     /\ call.p.nan_empty
     /\ \A i \in 1..Len(call.qu_segs) : call.qu_segs[i] # <<>> => C13_Fine(i))
    => /\ ~ret.raised
       /\ \A i \in 1..Len(call.qu_segs) : call.qu_segs[i] = <<>> =>
             /\ ret.qu_stats[i].nan
             /\ call.p.ret_arr => ret.qu_array[i].nan

----------------------------------------------------------------------------
\* Significant ROIs per session: signif_grps.signif_rois_by_grp_sess

\* a variant that counts one comparison per ROI
NCompsRoisOnly(nrois_sess, qu_labs) == nrois_sess

\* n_comps = nrois * float(len(qu_labs))
NComps(nrois_sess, qu_labs) == nrois_sess * Len(qu_labs)

\* math_util.calc_mult_comp(n_comps, p_val, n_perms): the p-value, a ratio
\* num/den, divided by the number of comparisons, and the number of
\* permutations raised to ceil(1 / corrected p-value)
CalcMultComp(n_comps, p_val, n_perms) ==
    LET need == CeilDiv(p_val.den * n_comps, p_val.num)
    IN  [p_val |-> [num |-> p_val.num, den |-> p_val.den * n_comps],
         n_perms |-> IF n_perms >= need THEN n_perms ELSE need]

\* the p-values passed in permpar: 0.05 and 0.01
SigPVals == {[num |-> 1, den |-> 20], [num |-> 1, den |-> 100]}

\* the numbers of permutations passed in permpar
SigNPerms == {100, 10000}

\* a call on one or two sessions, each with its number of ROIs
\* (integ_data[s][0][0].shape[0]), for two quintiles
SigInit ==
    /\ stim_df = <<>>
    /\ \E n_sess \in 1..2 :
       \E rois \in [1..n_sess -> 1..MaxSigRois], p_val \in SigPVals,
          n_perms \in SigNPerms :
          call = [op |-> "signif_rois", rois |-> rois, p_val |-> p_val,
                  n_perms |-> n_perms,
                  qu_labs |-> <<"first quint", "last quint">>,
                  sess |-> 1, q |-> 0, pc |-> "sess",
                  mult |-> [p_val |-> p_val, n_perms |-> n_perms]]
    /\ ret = [raised |-> FALSE, tests |-> <<>>, pvals_mult |-> <<>>,
              nperms_mult |-> <<>>]

\* the head of the loop over the sessions: nrois, n_comps and calc_mult_comp
SigSession ==
    /\ call.op = "signif_rois"
    /\ call.pc = "sess"
    /\ call.sess <= Len(call.rois)
    /\ call' = [call EXCEPT
                  !.mult = CalcMultComp(NComps(call.rois[call.sess],
                                               call.qu_labs),
                                        call.p_val, call.n_perms),
                  !.q = 0, !.pc = "quint"]
    /\ UNCHANGED <<stim_df, ret, blockVars>>
    /\ UNCHANGED notStim

\* one pass of the loop over qu_labs: permute_diff_ratio with nperm_mult and
\* id_elem with pval_mult
SigQuint ==
    /\ call.op = "signif_rois"
    /\ call.pc = "quint"
    /\ call.q < Len(call.qu_labs)
    /\ ret' = [ret EXCEPT !.tests = Append(@,
                  [sess |-> call.sess, q |-> call.q,
                   n_perms |-> call.mult.n_perms,
                   p_val |-> call.mult.p_val])]
    /\ call' = [call EXCEPT !.q = @ + 1]
    /\ UNCHANGED <<stim_df, blockVars>>
    /\ UNCHANGED notStim

\* after the quintiles: the values of the session are appended, and the loop
\* goes on to the next session or ends
SigSessionEnd ==
    /\ call.op = "signif_rois"
    /\ call.pc = "quint"
    /\ call.q = Len(call.qu_labs)
    /\ ret' = [ret EXCEPT !.pvals_mult = Append(@, call.mult.p_val),
                          !.nperms_mult = Append(@, call.mult.n_perms)]
    /\ call' = [call EXCEPT !.sess = @ + 1,
                  !.pc = IF call.sess = Len(call.rois) THEN "done" ELSE "sess"]
    /\ UNCHANGED <<stim_df, blockVars>>
    /\ UNCHANGED notStim

SigNext == SigSession \/ SigQuint \/ SigSessionEnd

\* n_perms_effective = max(n_perms, ceil(1 / (p_val / n_comparisons))) for a
\* p-value num/den
C19_NPerms(n_comparisons) ==
    LET need == CHOOSE c \in 0..(call.p_val.den * n_comparisons) :
                   /\ c * call.p_val.num >= call.p_val.den * n_comparisons
                   /\ (c - 1) * call.p_val.num < call.p_val.den * n_comparisons
    IN  IF call.n_perms >= need THEN call.n_perms ELSE need

\* C19: for a session with nrois ROIs compared over 2 quintiles the number of
\* comparisons is 2*nrois, every permutation test of the session uses the
\* p-value p_val/n_comparisons and max(n_perms, ceil(1/corrected p-value))
\* permutations, the same for both quintiles; 10 comparisons at p_val 0.05
\* give 0.005 and at least 200 permutations.
C19_MultComp ==
    call.op = "signif_rois" =>
        \A k \in 1..Len(ret.tests) :
           LET t == ret.tests[k]
               n_comparisons == 2 * call.rois[t.sess]
           IN  /\ t.p_val.num * call.p_val.den * n_comparisons
                     = call.p_val.num * t.p_val.den
               /\ t.n_perms = C19_NPerms(n_comparisons)
               /\ \A k2 \in 1..Len(ret.tests) :
                     ret.tests[k2].sess = t.sess =>
                        /\ ret.tests[k2].p_val = t.p_val
                        /\ ret.tests[k2].n_perms = t.n_perms
               /\ (n_comparisons = 10 /\ call.p_val = [num |-> 1, den |-> 20]) =>
                     /\ t.p_val.num * 1000 = 5 * t.p_val.den
                     /\ t.n_perms >= 200

\* both quintiles of a session of 5 ROIs tested at p_val 0.05 with fewer than
\* 200 permutations asked for, after a session with another number of ROIs
C19_Witness ==
    /\ call.op = "signif_rois"
    /\ call.pc = "done"
    /\ Len(call.rois) = 2
    /\ call.rois[1] # 5
    /\ call.rois[2] = 5
    /\ call.p_val = [num |-> 1, den |-> 20]
    /\ call.n_perms < 200
    /\ Len(ret.tests) = 4
    /\ ret.tests[4].n_perms = 200

----------------------------------------------------------------------------
\* Frame-indexed accessors of Session and Stim

\* int(np.round(self.twop_fps * 0.1)) at 30 frames per second
PupDelay == 3

\* arr[i] of a numpy array or list: a negative index counts from the end,
\* an index out of [-len, len) raises IndexError
PyIndexOk(arr, i) == i >= -Len(arr) /\ i < Len(arr)

PyIndex(arr, i) == IF i >= 0 THEN arr[i + 1] ELSE arr[Len(arr) + i + 1]

\* arr[list(frames)]
PyTake(arr, frames) ==
    IF \E k \in 1..Len(frames) : ~PyIndexOk(arr, frames[k])
    THEN [raised |-> TRUE, err |-> "IndexError", data |-> <<>>]
    ELSE [raised |-> FALSE, err |-> "none",
          data |-> [k \in 1..Len(frames) |-> PyIndex(arr, frames[k])]]

\* (fr >= max_val).any() or (fr < 0).any()
OutOfRange(frames, max_val) ==
    \E k \in 1..Len(frames) : frames[k] >= max_val \/ frames[k] < 0

FramesWarning == [raised |-> TRUE, err |-> "UserWarning", data |-> <<>>]

\* Session.get_roi_traces(frames) for one ROI
GetRoiTraces(sess, frames) ==
    IF OutOfRange(frames, sess.tot_twop_fr) THEN FramesWarning
    ELSE PyTake(sess.roi_traces, frames)

\* Session.get_run_speed_by_fr(fr, fr_type='stim')
GetRunSpeedByFr(sess, fr) ==
    IF OutOfRange(fr, sess.tot_run_fr) THEN FramesWarning
    ELSE PyTake(sess.run, fr)

\* Stim.get_segs_by_twopfr(twop_fr): np.interp over stim2twopfr, which
\* holds one stimulus frame per 2p frame here
GetSegsByTwopfr(sess, twop_fr) ==
    IF OutOfRange(twop_fr, sess.tot_twop_fr) THEN FramesWarning
    ELSE PyTake(sess.stim_seg_list, twop_fr)

\* Session.get_pup_fr_by_twop_fr(twop_fr):
\* self.twop2pupfr[list(twop_fr)] + delay
GetPupFrByTwopFr(sess, twop_fr) ==
    LET pup_fr == PyTake(sess.twop2pupfr, twop_fr)
    IN  IF pup_fr.raised THEN pup_fr
        ELSE [pup_fr EXCEPT !.data = [k \in 1..Len(@) |-> @[k] + PupDelay]]

\* a loaded session of n 2p frames, with as many running and pupil frames
\* (the pupil frame of each 2p frame: one per frame, or with one pupil frame
\* serving two 2p frames when rep)
FrameSess(n, rep) ==
    [tot_twop_fr |-> n, tot_run_fr |-> n,
     roi_traces |-> [k \in 1..n |-> 100 + k],
     run |-> [k \in 1..n |-> k % (MaxSpeed + 1)],
     stim_seg_list |-> [k \in 1..n |-> IF k = 1 THEN -1 ELSE k - 2],
     twop2pupfr |-> [k \in 1..n |-> IF rep /\ k >= 3 THEN k - 2 ELSE k - 1]]

FrameInit ==
    /\ stim_df = <<>>
    /\ \E n \in 1..MaxFrames, rep \in BOOLEAN :
          call = [op |-> "none", sess |-> FrameSess(n, rep)]
    /\ ret = [raised |-> FALSE]

\* the frame lists asked for: one or two indices, in range or not
FrameLists(n) ==
    {<<f>> : f \in -2..(n + 1)}
       \cup {<<f, g>> : f \in -2..(n + 1), g \in -2..(n + 1)}

GetRoiTracesCall ==
    /\ call.op = "none"
    /\ \E frames \in FrameLists(call.sess.tot_twop_fr) :
          /\ call' = [call EXCEPT !.op = "get_roi_traces"] @@ [frames |-> frames]
          /\ ret' = GetRoiTraces(call.sess, frames)
    /\ UNCHANGED <<stim_df, blockVars>>
    /\ UNCHANGED notStim

GetRunSpeedByFrCall ==
    /\ call.op = "none"
    /\ \E frames \in FrameLists(call.sess.tot_run_fr) :
          /\ call' = [call EXCEPT !.op = "get_run_speed_by_fr"]
                        @@ [frames |-> frames]
          /\ ret' = GetRunSpeedByFr(call.sess, frames)
    /\ UNCHANGED <<stim_df, blockVars>>
    /\ UNCHANGED notStim

GetSegsByTwopfrCall ==
    /\ call.op = "none"
    /\ \E frames \in FrameLists(call.sess.tot_twop_fr) :
          /\ call' = [call EXCEPT !.op = "get_segs_by_twopfr"]
                        @@ [frames |-> frames]
          /\ ret' = GetSegsByTwopfr(call.sess, frames)
    /\ UNCHANGED <<stim_df, blockVars>>
    /\ UNCHANGED notStim

GetPupFrByTwopFrCall ==
    /\ call.op = "none"
    /\ \E frames \in FrameLists(call.sess.tot_twop_fr) :
          /\ call' = [call EXCEPT !.op = "get_pup_fr_by_twop_fr"]
                        @@ [frames |-> frames]
          /\ ret' = GetPupFrByTwopFr(call.sess, frames)
    /\ UNCHANGED <<stim_df, blockVars>>
    /\ UNCHANGED notStim

\* stim_fr_seqs[i] with padding[0] frames before its lowest frame and
\* padding[1] frames after its highest frame
PadSeq(seq, padding) ==
    LET min_fr == SetMin(SeqSet(seq))
        max_fr == SetMax(SeqSet(seq))
    IN  [k \in 1..padding[1] |-> min_fr - padding[1] + k - 1] \o seq
           \o [k \in 1..padding[2] |-> max_fr + k]

\* len(stim_fr_seqs) after np.delete(stim_fr_seqs, seq_rem).tolist(): without
\* an axis np.delete works on the flattened array, and sequences of one
\* length make a 2D array, of which len(seq_rem) frames are deleted
LenAfterDelete(padded, seq_rem) ==
    IF seq_rem = {} THEN Len(padded)
    ELSE IF \A i \in 1..Len(padded) : Len(padded[i]) = Len(padded[1])
         THEN Len(padded) * Len(padded[1]) - Cardinality(seq_rem)
         ELSE Len(padded) - Cardinality(seq_rem)

\* Session.get_roi_seqs(stim_fr_seqs, padding) for one ROI
GetRoiSeqs(sess, stim_fr_seqs, padding) ==
    LET padded   == [i \in 1..Len(stim_fr_seqs) |->
                        PadSeq(stim_fr_seqs[i], padding)]
        seq_rem  == {i \in 1..Len(padded) :
                        \/ SetMax(SeqSet(padded[i])) >= sess.tot_twop_fr
                        \/ SetMin(SeqSet(padded[i])) < 0}
        keep     == SortedSeq((1..Len(padded)) \ seq_rem)
        pad_seql == [k \in 1..Len(keep) |-> Len(padded[keep[k]])]
        flat     == Flatten([k \in 1..Len(keep) |-> padded[keep[k]]])
        n_seq    == LenAfterDelete(padded, seq_rem)
        longest  == SetMax(SeqSet(pad_seql))
    IN  IF flat = <<>>
        THEN [raised |-> TRUE, err |-> "ValueError", traces |-> <<>>]
        ELSE IF n_seq > Len(pad_seql)
        THEN [raised |-> TRUE, err |-> "IndexError", traces |-> <<>>]
        ELSE [raised |-> FALSE, err |-> "none",
              traces |-> [k \in 1..n_seq |->
                  [j \in 1..longest |->
                      IF j <= pad_seql[k]
                      THEN At(sess.roi_traces, padded[keep[k]][j])
                      ELSE NaN]]]

\* the sequences asked for: one or two windows of one or two frames
FrameSeqs(n) ==
    LET wins == {<<f>> : f \in -1..n} \cup {<<f, f + 1>> : f \in -1..n}
    IN  {<<w>> : w \in wins} \cup {<<w1, w2>> : w1 \in wins, w2 \in wins}

GetRoiSeqsCall ==
    /\ call.op = "none"
    /\ \E seqs \in FrameSeqs(call.sess.tot_twop_fr),
          padding \in {<<0, 0>>, <<1, 0>>, <<0, 1>>} :
          /\ call' = [call EXCEPT !.op = "get_roi_seqs"]
                        @@ [seqs |-> seqs, padding |-> padding]
          /\ ret' = GetRoiSeqs(call.sess, seqs, padding)
    /\ UNCHANGED <<stim_df, blockVars>>
    /\ UNCHANGED notStim

FrameNext ==
    \/ GetRoiTracesCall
    \/ GetRunSpeedByFrCall
    \/ GetSegsByTwopfrCall
    \/ GetPupFrByTwopFrCall
    \/ GetRoiSeqsCall

\* C20: every frame-indexed accessor (get_roi_traces, get_run_speed_by_fr,
\* get_segs_by_twopfr, get_pup_fr_by_twop_fr) raises and returns no data when
\* a requested frame index is below 0 or at or above the number of frames of
\* its clock; a negative index never reads from the end of the array.
C20_OutOfRangeRaises ==
    (/\ call.op \in {"get_roi_traces", "get_run_speed_by_fr",
                     "get_segs_by_twopfr", "get_pup_fr_by_twop_fr"}
     /\ \E k \in 1..Len(call.frames) :
           call.frames[k] < 0 \/ call.frames[k] >= call.sess.tot_twop_fr)
    => (ret.raised /\ ret.data = <<>>)

\* C26: get_pup_fr_by_twop_fr applies the display delay to the 2p frame
\* indices before they are mapped to pupil frames: the result for 2p frame f
\* is twop2pupfr[f + delay], delay = round(0.1 s * twop_fps) 2p frames.
C26_DelayBeforeMapping ==
    (/\ call.op = "get_pup_fr_by_twop_fr"
     /\ \A k \in 1..Len(call.frames) :
           /\ call.frames[k] >= 0
           /\ call.frames[k] + PupDelay < call.sess.tot_twop_fr)
    => /\ ~ret.raised
       /\ ret.data = [k \in 1..Len(call.frames) |->
                        At(call.sess.twop2pupfr, call.frames[k] + PupDelay)]

\* sequence i of the call with its padding: the frames from padding[0]
\* before its first frame to padding[1] after its last
C21_Padded(i) ==
    LET seq == call.seqs[i]
        lo  == seq[1] - call.padding[1]
        hi  == seq[Len(seq)] + call.padding[2]
    IN  [k \in 1..(hi - lo + 1) |-> lo + k - 1]

C21_Retained ==
    SortedSeq({i \in 1..Len(call.seqs) :
        \A k \in 1..Len(C21_Padded(i)) :
           C21_Padded(i)[k] >= 0 /\ C21_Padded(i)[k] < call.sess.tot_twop_fr})

\* C21: get_roi_seqs extends each sequence by padding[0] frames before its
\* first frame and padding[1] after its last, drops whole every sequence
\* with a frame outside [0, tot_twop_fr), and returns one row per retained
\* sequence, in input order, holding its trace values followed by NaN up to
\* the longest retained length.
C21_RoiSeqs ==
    call.op = "get_roi_seqs" =>
        /\ ~ret.raised
        /\ Len(ret.traces) = Len(C21_Retained)
        /\ \A k \in 1..Len(C21_Retained) :
              LET fr == C21_Padded(C21_Retained[k])
              IN  /\ \A j \in 1..Len(fr) :
                        ret.traces[k][j] = At(call.sess.roi_traces, fr[j])
                  /\ \A j \in (Len(fr) + 1)..Len(ret.traces[k]) :
                        ret.traces[k][j] = NaN
                  /\ Len(ret.traces[k]) = SetMax({Len(C21_Padded(i)) :
                                              i \in SeqSet(C21_Retained)})

----------------------------------------------------------------------------
\* The life of a Session object: extract_sess_attribs, extract_info and the
\* getters that read what they loaded

MaxInfoCalls == 2

\* the traces of one ROI: finite, NaN or Inf in the dF/F traces only, or in
\* both the raw and the dF/F traces
RoiKinds == {"fine", "nan_dff", "nan_both"}

\* Session.__init__: no attribute of extract_sess_attribs or extract_info
NewSess ==
    [layer |-> "unset", dend |-> "unset", loaded |-> FALSE,
     nanrois |-> {}, nanrois_dff |-> {}, has_stimtypes |-> FALSE,
     stims |-> {}, bri_segs |-> {}, bri_segs_modified |-> FALSE,
     n_info |-> 0]

\* nan_rois of _set_nanrois(fluor): the ROIs with a NaN or Inf in the traces
\* of that kind
SetNanrois(roi_nan, fluor) ==
    {r \in 0..(Len(roi_nan) - 1) :
        IF fluor = "dff" THEN At(roi_nan, r) # "fine"
        ELSE At(roi_nan, r) = "nan_both"}

\* the hasattr(self, 'layer') test of extract_info never failing
MissingAttribsNever(s) == FALSE

\* not hasattr(self, 'layer')
MissingAttribs(s) == s.layer = "unset"

\* the stimulus types of the stimulus dictionary
StimsOf(df) ==
    {st \in {"gabors", "bricks"} :
        \E k \in 1..Len(df) : df[k].stimType = StimTypeCode(st)}

\* Session.extract_info(dend): the session and its stim_df afterwards
ExtractInfo(s, df, align, rt, dend_arg, extr_exists, roi_nan) ==
    IF MissingAttribs(s)
    THEN [raised |-> TRUE, err |-> "ValueError", sess |-> s, stim_df |-> df]
    ELSE
    LET dend == IF s.layer = "dend" /\ dend_arg = "extr" /\ extr_exists
                THEN "extr" ELSE "aibs"
        s1   == [s EXCEPT !.loaded = TRUE, !.dend = dend,
                          !.nanrois_dff = SetNanrois(roi_nan, "dff"),
                          !.nanrois = SetNanrois(roi_nan, "raw"),
                          !.n_info = @ + 1]
        s2   == [s1 EXCEPT !.has_stimtypes = TRUE]
        res  == ModifyBriSegs(align, rt)
    IN  IF s.has_stimtypes
        THEN [raised |-> FALSE, err |-> "none", sess |-> s1, stim_df |-> align]
        ELSE IF rt = "prod" /\ ~s.bri_segs_modified /\ res.raised
        THEN [raised |-> TRUE, err |-> "ValueError", sess |-> s2,
              stim_df |-> align]
        ELSE LET new_df == IF rt = "prod" /\ ~s.bri_segs_modified
                           THEN res.stim_df ELSE align
             IN  [raised |-> FALSE, err |-> "none",
                  sess |-> [s2 EXCEPT
                      !.bri_segs_modified = (@ \/ rt = "prod"),
                      !.stims = StimsOf(align) \cup {"grayscr"},
                      !.bri_segs = {new_df[k].stimSeg : k \in
                          {k \in 1..Len(new_df) : new_df[k].stimType = "b"}}],
                  stim_df |-> new_df]

\* Session.get_stim(stimtype)
GetStim(s, st) ==
    IF st \in {"gabors", "bricks", "grayscr"} /\ st \in s.stims
    THEN [raised |-> FALSE, err |-> "none", stim |-> st]
    ELSE [raised |-> TRUE, err |-> "ValueError", stim |-> "none"]

\* Session.get_nanrois(fluor)
GetNanrois(s, fluor) ==
    IF fluor # "dff" /\ s.dend = "unset"
    THEN [raised |-> TRUE, err |-> "AttributeError", rois |-> {}]
    ELSE IF fluor = "dff" /\ ~s.loaded
    THEN [raised |-> TRUE, err |-> "AttributeError", rois |-> {}]
    ELSE IF fluor = "dff" \/ s.dend = "extr"
    THEN [raised |-> FALSE, err |-> "none", rois |-> s.nanrois_dff]
    ELSE IF fluor = "raw"
    THEN [raised |-> FALSE, err |-> "none", rois |-> s.nanrois]
    ELSE [raised |-> TRUE, err |-> "ValueError", rois |-> {}]

\* a session just constructed, with the files it will load; prev is the
\* call before the last one and whether it raised
LifeInit ==
    /\ runtype \in {"pilot", "prod"}
    /\ stimtype = "bricks"
    /\ stim_df = <<>>
    /\ disp_seq = <<>>
    /\ exp_block_len_s = 2
    /\ blank_per = 0
    /\ seg_ps_wibl = 1
    /\ block_ran_seg = <<>>
    /\ act_n_blocks = 0
    /\ block_log = {}
    /\ block_pc = "new"
    /\ \E n1 \in 1..2, n2 \in 1..2, gabpos \in {0, 1}, glitch \in 0..1,
          roi_nan \in [1..2 -> RoiKinds], extr_exists \in BOOLEAN :
          call = [op |-> "none", sess |-> NewSess,
                  align |-> BriTable(n1, n2, gabpos, 1, glitch, 1),
                  roi_nan |-> roi_nan, extr_exists |-> extr_exists,
                  arg |-> "none", prev |-> <<"none", FALSE>>]
    /\ ret = [raised |-> FALSE]

ExtractSessAttribsCall ==
    /\ \E layer \in {"soma", "dend"} :
          call' = [call EXCEPT !.op = "extract_sess_attribs",
                               !.sess.layer = layer, !.arg = layer,
                               !.prev = <<call.op, ret.raised>>]
    /\ ret' = [raised |-> FALSE]
    /\ UNCHANGED <<stim_df, blockVars>>
    /\ UNCHANGED notStim

ExtractInfoCall ==
    /\ call.sess.n_info < MaxInfoCalls
    /\ \E dend \in {"aibs", "extr"} :
          LET res == ExtractInfo(call.sess, stim_df, call.align, runtype,
                                 dend, call.extr_exists, call.roi_nan)
          IN  /\ call' = [call EXCEPT !.op = "extract_info",
                                      !.sess = res.sess, !.arg = dend,
                                      !.prev = <<call.op, ret.raised>>]
              /\ ret' = [raised |-> res.raised, err |-> res.err]
              /\ stim_df' = res.stim_df
    /\ UNCHANGED blockVars
    /\ UNCHANGED notStim

GetStimCall ==
    /\ \E st \in {"gabors", "bricks", "grayscr", "other"} :
          /\ call' = [call EXCEPT !.op = "get_stim", !.arg = st,
                                  !.prev = <<call.op, ret.raised>>]
          /\ ret' = GetStim(call.sess, st)
    /\ UNCHANGED <<stim_df, blockVars>>
    /\ UNCHANGED notStim

GetNanroisCall ==
    /\ \E fluor \in {"raw", "dff", "other"} :
          /\ call' = [call EXCEPT !.op = "get_nanrois", !.arg = fluor,
                                  !.prev = <<call.op, ret.raised>>]
          /\ ret' = GetNanrois(call.sess, fluor)
    /\ UNCHANGED <<stim_df, blockVars>>
    /\ UNCHANGED notStim

LifeNext ==
    \/ ExtractSessAttribsCall
    \/ ExtractInfoCall
    \/ GetStimCall
    \/ GetNanroisCall

\* C22: extract_info before extract_sess_attribs raises and loads nothing
\* (no stimulus dictionary, segment table, traces or stimulus objects), and
\* get_stim for a stimulus that has not been loaded raises instead of
\* returning an object.
C22_Lifecycle ==
    /\ call.sess.layer = "unset" =>
          /\ call.op = "extract_info" => ret.raised
          /\ call.sess = NewSess
          /\ stim_df = <<>>
    /\ (call.op = "get_stim" /\ call.arg \notin call.sess.stims) =>
          ret.raised /\ ret.stim = "none"

\* extract_info was refused on a new session, which get_stim then refuses
C22_Witness ==
    /\ call.prev = <<"extract_info", TRUE>>
    /\ call.op = "get_stim"
    /\ call.arg = "gabors"
    /\ call.sess = NewSess
    /\ stim_df = <<>>
    /\ ret.raised

\* C25: get_nanrois returns for fluor='raw' the set computed from the raw
\* traces and for fluor='dff' the set computed from the dF/F traces, each
\* independently of the other and whatever the dendrite type of the
\* session; any other fluor value raises.
C25_Nanrois ==
    (call.op = "get_nanrois" /\ call.sess.loaded) =>
        /\ call.arg = "raw" =>
              /\ ~ret.raised
              /\ ret.rois = {r \in 0..1 : call.roi_nan[r + 1] = "nan_both"}
        /\ call.arg = "dff" =>
              /\ ~ret.raised
              /\ ret.rois = {r \in 0..1 : call.roi_nan[r + 1] # "fine"}
        /\ call.arg = "other" => ret.raised

\* the brick segment ids of the table, one per brick row
C27_BriSegs == [k \in 1..Len(BriRows(stim_df)) |-> BriRows(stim_df)[k].stimSeg]

\* C27: production session: after one or more successful extract_info
\* calls the brick segment ids of stim_df are renumbered exactly once: the
\* ids of the two brick parts do not overlap and are those the session's
\* Bricks object was built with.
C27_RenumberedOnce ==
    (runtype = "prod" /\ call.op = "extract_info" /\ ~ret.raised
        /\ "bricks" \in call.sess.stims) =>
        /\ \A i \in 1..Len(C27_BriSegs), j \in 1..Len(C27_BriSegs) :
              i # j => C27_BriSegs[i] # C27_BriSegs[j]
        /\ SeqSet(C27_BriSegs) = call.sess.bri_segs

----------------------------------------------------------------------------
\* Specifications: one per component, the other components left idle

InitRun == RunInit /\ AlignIdle /\ BlockIdle /\ StimIdle /\ GrpIdle

SpecRun == InitRun /\ [][RunNext]_vars

InitAlign == AlignInit /\ RunIdle /\ BlockIdle /\ StimIdle /\ GrpIdle

SpecAlign == InitAlign /\ [][AlignNext]_vars

InitBlock == BlockInit /\ RunIdle /\ AlignIdle /\ StimIdle /\ GrpIdle

SpecBlock == InitBlock /\ [][BlockNext]_vars

InitStim == StimInit /\ RunIdle /\ AlignIdle /\ GrpIdle

SpecStim == InitStim /\ [][StimNext]_vars

InitQuery == QueryInit /\ RunIdle /\ AlignIdle /\ GrpIdle

SpecQuery == InitQuery /\ [][QueryNext]_vars

InitTrace == TraceInit /\ RunIdle /\ AlignIdle /\ GrpIdle

SpecTrace == InitTrace /\ [][TraceNext]_vars

InitSig == SigInit /\ RunIdle /\ AlignIdle /\ BlockIdle /\ GrpIdle

SpecSig == InitSig /\ [][SigNext]_vars

InitFrame == FrameInit /\ RunIdle /\ AlignIdle /\ BlockIdle /\ GrpIdle

SpecFrame == InitFrame /\ [][FrameNext]_vars

InitLife == LifeInit /\ RunIdle /\ AlignIdle /\ GrpIdle

SpecLife == InitLife /\ [][LifeNext]_vars

InitBri == BriInit /\ RunIdle /\ AlignIdle /\ GrpIdle

SpecBri == InitBri /\ [][BriNext]_vars

InitGrp == GrpInit /\ RunIdle /\ AlignIdle /\ BlockIdle /\ StimIdle

SpecGrp == InitGrp /\ [][GrpNext]_vars

====
